---- MODULE Spec2Model ----
(***************************************************************************)
(* Model of the incremental ingestion pipeline of efi-corpus:              *)
(* MediaCloudCorpusBuilder.run, its sequential and concurrent processing   *)
(* paths with the fallback between them, and the retry loop of discover.   *)
(***************************************************************************)
EXTENDS Integers, Sequences, FiniteSets, TLC

\* ------------------------------------------------------------------ bounds
\* Longest list of (post-filter) discovered items of one run.
MaxDiscovered == 2
\* Number of calls of run in one behaviour.
MaxRuns == 2
\* Number of discovery-service calls that raise in one call of discover.
MaxApiErrors == 3
\* Largest item cap (params.extra['max_stories']) tried.
MaxCap == 2
\* Queries one call of discover runs.
MaxQueries == 2

\* ------------------------------------------------------- program constants
\* mediacloud.py:607  batch_size = 3
batch_size == 3
\* mediacloud.py:493  if len(text) < 400
MinTextLen == 400

\* ---------------------------------------------------------------- helpers
Range(s) == {s[k] : k \in 1..Len(s)}

SeqsUpTo(S, n) == UNION {[1..k -> S] : k \in 0..n}

Min(a, b) == IF a < b THEN a ELSE b

Max(a, b) == IF a > b THEN a ELSE b

\* ------------------------------------------------------------- strings
\* A string is held as the sequence of its characters.
UpperChars ==
    <<"A", "B", "C", "D", "E", "F", "G", "H", "I", "J", "K", "L", "M",
      "N", "O", "P", "Q", "R", "S", "T", "U", "V", "W", "X", "Y", "Z">>

LowerChars ==
    <<"a", "b", "c", "d", "e", "f", "g", "h", "i", "j", "k", "l", "m",
      "n", "o", "p", "q", "r", "s", "t", "u", "v", "w", "x", "y", "z">>

LowerChar(c) ==
    IF \E k \in 1..26 : UpperChars[k] = c
    THEN LowerChars[CHOOSE k \in 1..26 : UpperChars[k] = c]
    ELSE c

\* str.lower()
lower(str) == [k \in 1..Len(str) |-> LowerChar(str[k])]

\* sub in str
contains(sub, str) ==
    \E k \in 1..(Len(str) - Len(sub) + 1) :
        SubSeq(str, k, k + Len(sub) - 1) = sub

\* "403"
S403 ==
    <<"4", "0", "3">>

\* "timeout"
STimeout ==
    <<"t", "i", "m", "e", "o", "u", "t">>

\* "read timed out"
SReadTimedOut ==
    <<"r", "e", "a", "d", " ", "t", "i", "m", "e", "d", " ", "o", "u",
      "t">>

\* "connection"
SConnection ==
    <<"c", "o", "n", "n", "e", "c", "t", "i", "o", "n">>

\* "network"
SNetwork ==
    <<"n", "e", "t", "w", "o", "r", "k">>

\* The error texts the discovery service is taken to raise.
\* "HTTPError 403 Forbidden"
Err403Forbidden ==
    <<"H", "T", "T", "P", "E", "r", "r", "o", "r", " ", "4", "0", "3",
      " ", "F", "o", "r", "b", "i", "d", "d", "e", "n">>

\* "Read timed out"
ErrReadTimedOut ==
    <<"R", "e", "a", "d", " ", "t", "i", "m", "e", "d", " ", "o", "u",
      "t">>

\* "TIMEOUT 403"
ErrTimeout403 ==
    <<"T", "I", "M", "E", "O", "U", "T", " ", "4", "0", "3">>

\* "Connection Timeout"
ErrConnTimeout ==
    <<"C", "o", "n", "n", "e", "c", "t", "i", "o", "n", " ", "T", "i",
      "m", "e", "o", "u", "t">>

\* "Connection reset"
ErrConnReset ==
    <<"C", "o", "n", "n", "e", "c", "t", "i", "o", "n", " ", "r", "e",
      "s", "e", "t">>

\* "NETWORK down"
ErrNetworkDown ==
    <<"N", "E", "T", "W", "O", "R", "K", " ", "d", "o", "w", "n">>

\* "boom"
ErrBoom ==
    <<"b", "o", "o", "m">>

ErrorStrings ==
    {Err403Forbidden,
     ErrReadTimedOut,
     ErrTimeout403,
     ErrConnTimeout,
     ErrConnReset,
     ErrNetworkDown,
     ErrBoom, <<>>}

\* --------------------------------------------------------------------- URLs
\* A URL is held as the parts urlparse splits it into.
UA ==
    [scheme |-> "https", userinfo |-> "", host |-> "x.com", port |-> "",
     path |-> "/a", query |-> <<<<"b", "1">>>>, frag |-> ""]

UB ==
    [scheme |-> "HTTPS", userinfo |-> "", host |-> "X.com", port |-> "",
     path |-> "/a", query |-> <<<<"utm_source", "n">>, <<"b", "1">>>>,
     frag |-> "top"]

UC ==
    [scheme |-> "https", userinfo |-> "", host |-> "y.com", port |-> "",
     path |-> "", query |-> <<>>, frag |-> ""]

Urls == {UA, UB, UC}

\* A URL of the host of UC that carries a user-info.
UD == [UC EXCEPT !.userinfo = "x.com"]

\* The urls the filters of run are applied to.
FilterUrls == Urls \cup {UD}

\* mediacloud.py:406
TRACKERS ==
    {"utm_source", "utm_medium", "utm_campaign", "utm_term", "utm_content",
     "gclid", "fbclid"}

\* str.lower() on the scheme and host strings that occur in the URLs and in
\* the blacklists.
LowerStr(s) ==
    CASE s = "HTTPS" -> "https"
      [] s = "X.com" -> "x.com"
      [] s = "Y.COM" -> "y.com"
      [] s = "/A" -> "/a"
      [] OTHER -> s

\* Whitespace at the start of the strings that occur in the URLs, removed.
LStrip(s) ==
    CASE s = " https" -> "https"
      [] OTHER -> s

\* Whitespace at the end of the strings that occur in the URLs, removed.
RStrip(s) ==
    CASE s = "/a " -> "/a"
      [] s = "top " -> "top"
      [] OTHER -> s

\* mediacloud.py:411  url.strip(): the whitespace before the scheme and after
\* the last part of the URL (fragment, else query, else path) is removed.
strip(u) ==
    [u EXCEPT
        !.scheme = LStrip(@),
        !.frag = RStrip(@),
        !.query = IF u.frag = "" /\ u.query # <<>>
                  THEN [u.query EXCEPT
                           ![Len(u.query)] = <<@[1], RStrip(@[2])>>]
                  ELSE @,
        !.path = IF u.frag = "" /\ u.query = <<>> THEN RStrip(@) ELSE @]

\* unquote_plus on the query keys and values that occur in the URLs.
unquote_plus(s) ==
    CASE s = "a+b" -> "a b"
      [] s = "a%20b" -> "a b"
      [] s = "utm%5Fsource" -> "utm_source"
      [] OTHER -> s

\* quote_plus on the decoded query keys and values that occur in the URLs.
quote_plus(s) ==
    CASE s = "a b" -> "a+b"
      [] OTHER -> s

\* mediacloud.py:412  parse_qsl(p.query, keep_blank_values=True)
parse_qsl(q) ==
    [k \in 1..Len(q) |-> <<unquote_plus(q[k][1]), unquote_plus(q[k][2])>>]

\* mediacloud.py:419  urlencode(q, doseq=True)
urlencode(q) ==
    [k \in 1..Len(q) |-> <<quote_plus(q[k][1]), quote_plus(q[k][2])>>]

\* Code-point order of the decoded query keys and values that occur in the
\* URLs.
StrRank(s) ==
    CASE s = "" -> 0
      [] s = "1" -> 1
      [] s = "2" -> 2
      [] s = "UTM_SOURCE" -> 3
      [] s = "a" -> 4
      [] s = "a b" -> 5
      [] s = "b" -> 6
      [] s = "c" -> 7
      [] s = "n" -> 8
      [] s = "utm_source" -> 9
      [] s = "x" -> 10
      [] OTHER -> 11

PairLeq(p, q) ==
    \/ StrRank(p[1]) < StrRank(q[1])
    \/ StrRank(p[1]) = StrRank(q[1]) /\ StrRank(p[2]) <= StrRank(q[2])

RECURSIVE FilterTrackers(_)
FilterTrackers(q) ==
    IF q = <<>> THEN <<>>
    ELSE IF Head(q)[1] \in TRACKERS THEN FilterTrackers(Tail(q))
    ELSE <<Head(q)>> \o FilterTrackers(Tail(q))

RECURSIVE InsertPair(_, _)
InsertPair(p, s) ==
    IF s = <<>> THEN <<p>>
    ELSE IF PairLeq(p, Head(s)) THEN <<p>> \o s
    ELSE <<Head(s)>> \o InsertPair(p, Tail(s))

RECURSIVE SortPairs(_)
SortPairs(q) ==
    IF q = <<>> THEN <<>> ELSE InsertPair(Head(q), SortPairs(Tail(q)))

\* The hostname urlparse reads from a netloc that urlunparse wrote: the text
\* before the first colon (an IPv6 address that lost its brackets has none).
NetlocHost(n) ==
    CASE n = "::1" -> ""
      [] OTHER -> n

\* The rest of such a netloc, after the hostname.
NetlocPort(n) ==
    CASE n = "::1" -> ":1"
      [] OTHER -> ""

\* mediacloud.py:414-421  urlunparse: the URL built from the six parts, held
\* as the parts urlparse splits it into.
urlunparse(scheme, netloc, path, params, query, frag) ==
    [scheme |-> scheme, userinfo |-> "", host |-> NetlocHost(netloc),
     port |-> NetlocPort(netloc), path |-> path, query |-> query,
     frag |-> frag]

\* run.canonicalize
canonicalize(u) ==
    LET p == strip(u)
        q == SortPairs(FilterTrackers(parse_qsl(p.query)))
    IN  urlunparse(LowerStr(p.scheme),
                   LowerStr(p.host),
                   IF p.path = "" THEN "/" ELSE p.path,
                   "",
                   urlencode(q),
                   "")

\* run.sid: the digest of the canonical URL (distinct canonical URLs are
\* taken to have distinct digests).
sid(u) == <<"sha1", canonicalize(u)>>

\* sid on the urls discover yields.
sids == [u \in FilterUrls |-> sid(u)]

Sids == {sids[u] : u \in Urls}

\* The query strings of the URLs canonicalize is applied to.
CanonQueries ==
    {<<>>,
     <<<<"b", "1">>>>,
     <<<<"utm_source", "n">>, <<"b", "1">>>>,
     <<<<"b", "1">>, <<"a", "2">>>>,
     <<<<"a", "2">>, <<"b", "1">>>>,
     <<<<"b", "">>>>,
     <<<<"c", "a+b">>>>,
     <<<<"c", "a%20b">>>>,
     <<<<"utm%5Fsource", "x">>>>,
     <<<<"UTM_SOURCE", "x">>>>,
     <<<<"utm_medium", "1">>, <<"utm_campaign", "1">>, <<"b", "1">>,
       <<"utm_term", "1">>, <<"utm_content", "1">>, <<"gclid", "1">>,
       <<"fbclid", "1">>, <<"utm_source", "1">>>>}

\* The URLs canonicalize is applied to: every combination of the parts.
CanonInputs ==
    [scheme : {"https", "HTTPS", " https"},
     userinfo : {"", "user"},
     host : {"x.com", "X.com", "::1"},
     port : {"", "8080"},
     path : {"", "/a", "/a "},
     query : CanonQueries,
     frag : {"", "top", "top "}]

\* ------------------------------------------------------------ corpus store
has_doc(d, s) == s \in d

write_document(d, s) == d \cup {s}

append_index(ix, s) == Append(ix, s)

\* ------------------------------------------------- what the outside answers
\* What fetching, extracting, writing and indexing one URL does: the step
\* that raises (if any) and the length of the extracted text.
TextLens == {0, MinTextLen - 1, MinTextLen}

\* "fetch" stands for an exception of fetch_raw or of parse_text: both leave
\* before any text is looked at.
Outcomes ==
    {[raise |-> "fetch", len |-> 0]}
    \cup {[raise |-> "none", len |-> n] : n \in TextLens}
    \cup {[raise |-> r, len |-> MinTextLen] : r \in {"write", "index"}}

NoOutcome == [raise |-> "none", len |-> -1]

VARIABLES
    docs,            \* corpus: the doc_ids stored
    index,           \* corpus: the index records (their id), in order
    manifest,        \* the persisted manifest
    pc,              \* where the call of run stands
    runNo,           \* number of calls of run so far
    use_concurrent,  \* params.extra['use_concurrent_processing']
    discovered,      \* the discovered items (their url) after the filters
    frontier,        \* list of (url, stable id)
    i,               \* position of _process_sequential in the frontier
    added,
    skipped_quality,
    skipped_text_extraction,
    failed_urls,
    batch_num,       \* position of _process_concurrent in its batches
    total_result,    \* accumulated batch results
    result,          \* what run returned
    docs0,           \* history: docs when the frontier was computed
    writeCalls,      \* history: write_document calls of this run, per doc_id
    appendCalls,     \* history: append_index calls of this run, per doc_id
    fellBack,        \* history: the concurrent path fell back
    batchRaised,     \* history: the import or a batch job raised
    lastOutcome,     \* history: what the outside answered for the last item
    sameAsPrev,      \* history: same params and items as the previous call
    conf_concurrent_requests, \* params.extra['concurrent_requests']
    conf_download_delay,      \* params.extra['download_delay'], in 1/10 s
    batch_log,       \* history: what _process_concurrent did, in order
    d_pc,            \* where the call of discover stands
    upstream,        \* the pages the discovery service holds for the query
    max_stories,     \* params.extra['max_stories'] (0: not set)
    all_stories,
    query_stories,
    pagination_token, \* 0: None; k: the token that asks for page k + 1
    more_stories,
    error_str,       \* str(e) of the last exception of a page call
    retry_wait,      \* seconds last handed to rate_limiter.wait_for_retry
    api_errors,      \* history: page calls of the query that raised (up to MaxApiErrors)
    test_urls,       \* params.extra['test_urls'] (<<>>: not set)
    collection_id,   \* a collection id is set (constructor or params.extra)
    use_cache,       \* not params.extra['force_refresh_cache']
    queries,         \* number of query strings _prepare_queries returned
    q,               \* position of discover in its queries
    search_cache,    \* the Search Result Cache: one entry per query
    page_calls,      \* history: page calls of this discover that returned
    cache_reads,     \* history: get_search_results calls of this discover
    yielded,         \* the DiscoveryItems discover yielded
    courtesy_waits,  \* history: rate_limiter.wait_if_needed calls of this discover
    c_url,           \* the URL canonicalize is first applied to
    c_prev,          \* the argument of the last call of canonicalize
    c_out,           \* what the last call of canonicalize returned
    c_calls,         \* calls of canonicalize so far
    extra_queries,   \* params.extra['queries'] (<<>>: not set)
    extra_keywords,  \* params.extra['keywords']: the word lists, in order
    params_keywords, \* params.keywords
    query_strings,   \* what _prepare_queries returned
    parsed,          \* what the text extractor returned for an item
    discovered_item, \* discovered_by_url.get(url) of the item
    meta,            \* the meta of the document written for the item
    raw_items,       \* what discover yielded (the urls), before the filters
    domain_blacklist, \* params.extra['domain_blacklist']
    url_blacklist,   \* params.extra['url_blacklist']
    l_pc,            \* where the call of infer stands
    max_retries,     \* config.max_retries
    ignore_cache,    \* config.ignore_cache
    messages,        \* the messages of the call of infer
    attempt,         \* the loop variable of _safe_infer
    response,        \* what infer returned
    llm_cache,       \* the cache manager: one entry per messages
    call_log,        \* history: the API calls of this infer (TRUE: returned)
    sleeps,          \* history: the time.sleep calls of this infer
    cache_hit,       \* history: this infer returned the cached entry
    infers,          \* history: calls of infer so far
    t_pc,            \* where the call of chunk stands
    max_words,       \* config.max_words
    paragraphs,      \* the paragraphs of the text, each split into sentences
    quote_in_text,   \* '"' in text
    para,            \* position of chunk in the paragraphs
    sent,            \* position of chunk in the sentences of the paragraph
    current_chunk,
    current_word_count,
    chunks

dvars ==
    <<d_pc, upstream, max_stories, all_stories, query_stories,
      pagination_token, more_stories, error_str, retry_wait, api_errors,
      test_urls, collection_id, use_cache, queries, q, search_cache,
      page_calls, cache_reads, yielded, courtesy_waits>>

vars ==
    <<docs, index, manifest, pc, runNo, use_concurrent, discovered, frontier,
      i, added, skipped_quality, skipped_text_extraction, failed_urls,
      batch_num, total_result, result, docs0, writeCalls, appendCalls,
      fellBack, batchRaised, lastOutcome, sameAsPrev,
      conf_concurrent_requests, conf_download_delay, batch_log, d_pc, upstream,
      max_stories, all_stories, query_stories, pagination_token,
      more_stories, error_str, retry_wait, api_errors, test_urls,
      collection_id, use_cache, queries, q, search_cache, page_calls,
      cache_reads, yielded, courtesy_waits, c_url, c_prev, c_out, c_calls, extra_queries,
      extra_keywords, params_keywords, query_strings, parsed,
      discovered_item, meta, raw_items, domain_blacklist, url_blacklist,
      l_pc, max_retries, ignore_cache, messages, attempt, response,
      llm_cache, call_log, sleeps, cache_hit, infers, t_pc, max_words,
      paragraphs, quote_in_text, para, sent, current_chunk,
      current_word_count, chunks>>

runvars ==
    <<docs, index, manifest, pc, runNo, use_concurrent, discovered, frontier,
      i, added, skipped_quality, skipped_text_extraction, failed_urls,
      batch_num, total_result, result, docs0, writeCalls, appendCalls,
      fellBack, batchRaised, lastOutcome, sameAsPrev,
      conf_concurrent_requests, conf_download_delay, batch_log>>

\* The concurrency settings of the params.
confvars == <<conf_concurrent_requests, conf_download_delay>>

cvars == <<c_url, c_prev, c_out, c_calls>>

qvars == <<extra_queries, extra_keywords, params_keywords, query_strings>>

mvars == <<parsed, discovered_item, meta>>

bvars == <<raw_items, domain_blacklist, url_blacklist>>

lvars ==
    <<l_pc, max_retries, ignore_cache, messages, attempt, response,
      llm_cache, call_log, sleeps, cache_hit, infers>>

tvars ==
    <<t_pc, max_words, paragraphs, quote_in_text, para, sent, current_chunk,
      current_word_count, chunks>>

xvars == <<bvars, lvars, tvars>>

\* The variables of the functions that are followed on their own.
fvars == <<cvars, qvars, mvars, xvars>>

\* canonicalize is applied at most this many times in a row.
MaxCalls == 2

ZeroCalls == [s \in Sids |-> 0]

\* A slot of the Search Result Cache that holds nothing.
NoEntry == [present |-> FALSE, stories |-> <<>>, age |-> 0]

EmptyCache == [k \in 1..MaxQueries |-> NoEntry]

NoResult == [from |-> "none"]

\* mediacloud.py:618-624
ZeroTotal ==
    [processed_count |-> 0, added_count |-> 0, failed_count |-> 0,
     skipped_quality |-> 0, skipped_text_extraction |-> 0]

\* A key params.extra does not hold.
NotSet == -1

InitRun ==
    /\ docs = {}
    /\ index = <<>>
    /\ manifest = [exists |-> FALSE, params |-> TRUE, history |-> <<>>,
                   doc_count |-> 0]
    /\ pc = "idle"
    /\ runNo = 0
    /\ use_concurrent = TRUE
    /\ discovered = <<>>
    /\ frontier = <<>>
    /\ i = 1
    /\ added = 0
    /\ skipped_quality = 0
    /\ skipped_text_extraction = 0
    /\ failed_urls = <<>>
    /\ batch_num = 0
    /\ total_result = ZeroTotal
    /\ result = NoResult
    /\ docs0 = {}
    /\ writeCalls = ZeroCalls
    /\ appendCalls = ZeroCalls
    /\ fellBack = FALSE
    /\ batchRaised = FALSE
    /\ lastOutcome = NoOutcome
    /\ sameAsPrev = FALSE
    /\ conf_concurrent_requests = NotSet
    /\ conf_download_delay = NotSet
    /\ batch_log = <<>>

InitDiscover ==
    /\ d_pc = "idle"
    /\ upstream = <<>>
    /\ max_stories = 0
    /\ all_stories = <<>>
    /\ query_stories = <<>>
    /\ pagination_token = 0
    /\ more_stories = FALSE
    /\ error_str = <<>>
    /\ retry_wait = 0
    /\ api_errors = 0
    /\ test_urls = <<>>
    /\ collection_id = TRUE
    /\ use_cache = TRUE
    /\ queries = 0
    /\ q = 1
    /\ search_cache = EmptyCache
    /\ page_calls = 0
    /\ cache_reads = 0
    /\ yielded = <<>>
    /\ courtesy_waits = 0

InitBuilder == InitRun /\ InitDiscover

\* No call of canonicalize yet.
InitCvars ==
    /\ c_url = UC
    /\ c_prev = UC
    /\ c_out = UC
    /\ c_calls = 0

\* No call of _prepare_queries yet.
InitQvars ==
    /\ extra_queries = <<>>
    /\ extra_keywords = <<>>
    /\ params_keywords = <<>>
    /\ query_strings = <<>>

\* A field nobody supplied (None, an empty string or an empty list).
NoValue == "none"

NoMeta ==
    [title |-> NoValue, published_at |-> NoValue, language |-> NoValue,
     authors |-> <<>>]

\* No item has reached the metadata merge yet.
InitMvars ==
    /\ parsed = NoMeta
    /\ discovered_item = [found |-> FALSE] @@ NoMeta
    /\ meta = NoMeta

\* No filter has been applied yet.
InitBvars ==
    /\ raw_items = <<>>
    /\ domain_blacklist = <<>>
    /\ url_blacklist = <<>>

\* The messages infer is called with.
Messages == {"m1", "m2"}

\* None, where a response is expected.
PyNone == [none |-> TRUE]

\* The cache manager holds no entry.
EmptyLlmCache == [m \in Messages |-> [present |-> FALSE, response |-> PyNone]]

\* openai_interface.py:34
default_max_retries == 3

\* infer has not been called; the config is the default one.
InitLvars ==
    /\ l_pc = "idle"
    /\ max_retries = default_max_retries
    /\ ignore_cache = FALSE
    /\ messages = "m1"
    /\ attempt = 0
    /\ response = PyNone
    /\ llm_cache = EmptyLlmCache
    /\ call_log = <<>>
    /\ sleeps = <<>>
    /\ cache_hit = FALSE
    /\ infers = 0

\* text_chunker.py:23
default_max_words == 80

\* chunk has not been called; the config is the default one.
InitTvars ==
    /\ t_pc = "idle"
    /\ max_words = default_max_words
    /\ paragraphs = <<>>
    /\ quote_in_text = FALSE
    /\ para = 1
    /\ sent = 1
    /\ current_chunk = <<>>
    /\ current_word_count = 0
    /\ chunks = <<>>

InitXvars == InitBvars /\ InitLvars /\ InitTvars

Init ==
    /\ InitBuilder
    /\ InitCvars
    /\ InitQvars
    /\ InitMvars
    /\ InitXvars

\* canonicalize is a function of its argument alone: it starts from any URL.
InitCanon ==
    /\ InitBuilder
    /\ c_url \in CanonInputs
    /\ c_prev = c_url
    /\ c_out = c_url
    /\ c_calls = 0
    /\ InitQvars
    /\ InitMvars
    /\ InitXvars

\* canonicalize is applied to the URL, then to what it returned.
Canonicalize ==
    /\ c_calls < MaxCalls
    /\ c_prev' = c_out
    /\ c_out' = canonicalize(c_out)
    /\ c_calls' = c_calls + 1
    /\ UNCHANGED <<c_url, runvars, dvars, qvars, mvars, xvars>>

NextCanon == Canonicalize

SpecCanon == InitCanon /\ [][NextCanon]_vars

\* ------------------------------------------------------------------- run
\* mediacloud.py:447  discovered_by_url = {d.url: d for d in discovered}
discovered_by_url(disc) == Range(disc)

\* mediacloud.py:453  pairs = [(d.url, sid(d.url)) for d in discovered]
pairs(disc) == [k \in 1..Len(disc) |-> <<disc[k], sids[disc[k]]>>]

\* FrontierOf with the has_doc filter left out.
FrontierAll(ps, d) == ps

\* mediacloud.py:454  frontier = [(u, s) for (u, s) in pairs if not has_doc(s)]
RECURSIVE FrontierOf(_, _)
FrontierOf(ps, d) ==
    IF ps = <<>> THEN <<>>
    ELSE IF has_doc(d, Head(ps)[2]) THEN FrontierOf(Tail(ps), d)
    ELSE <<Head(ps)>> \o FrontierOf(Tail(ps), d)

\* The locals of _process_sequential at its start (mediacloud.py:472-476).
EnterSequential ==
    /\ pc' = "sequential"
    /\ i' = 1
    /\ added' = 0
    /\ skipped_quality' = 0
    /\ skipped_text_extraction' = 0
    /\ failed_urls' = <<>>

\* The lists params.extra['test_urls'] may hold.
TestUrlLists == {<<>>, <<UA>>, <<UC, UA>>, <<UB, UB>>}

\* literal_mode with the test URLs never looked at.
literal_mode_off(tu) == FALSE

\* mediacloud.py:53-54  if test_urls:
literal_mode(tu) == tu # <<>>

\* mediacloud.py:67-73: discover is not in literal mode and has no collection
\* id from the constructor or params.extra.
collection_missing(tu, cid) == ~literal_mode(tu) /\ ~cid

\* mediacloud.py:361-380: the items of a blacklisted domain or url pattern
\* are left out.
apply_filters(items, blacklisted) ==
    SelectSeq(items, LAMBDA u : u \notin blacklisted)

\* The text of the netloc of a URL, in pieces: user-info, host and port.
netloc(u) ==
    (IF u.userinfo = "" THEN <<>> ELSE <<u.userinfo, "@">>)
        \o <<u.host>>
        \o (IF u.port = "" THEN <<>> ELSE <<":", u.port>>)

\* The text of a query string, in pieces.
RECURSIVE query_text(_)
query_text(qs) ==
    IF qs = <<>> THEN <<>>
    ELSE <<Head(qs)[1], "=", Head(qs)[2]>>
            \o (IF Len(qs) > 1 THEN <<"&">> ELSE <<>>)
            \o query_text(Tail(qs))

\* The text of a URL, in pieces.
url_text(u) ==
    <<u.scheme, "://">> \o netloc(u) \o <<u.path>>
        \o (IF u.query = <<>> THEN <<>> ELSE <<"?">> \o query_text(u.query))
        \o (IF u.frag = "" THEN <<>> ELSE <<"#", u.frag>>)

\* str.lower() on a text held in pieces.
lower_pieces(t) == [k \in 1..Len(t) |-> LowerStr(t[k])]

\* mediacloud.py:342-350
is_domain_blacklisted(u, blacklist) ==
    \E k \in 1..Len(blacklist) :
        contains(lower_pieces(blacklist[k]), lower_pieces(netloc(u)))

\* mediacloud.py:352-359
is_url_blacklisted(u, blacklist) ==
    \E k \in 1..Len(blacklist) :
        contains(lower_pieces(blacklist[k]), lower_pieces(url_text(u)))

\* mediacloud.py:363-375: the urls the two filters of _apply_filters leave
\* out for the two blacklists of the params.
blacklisted_urls(dbl, ubl) ==
    {u \in FilterUrls :
        is_domain_blacklisted(u, dbl) \/ is_url_blacklisted(u, ubl)}

\* manifest_on_raise with the params persisted before discover is called.
manifest_on_raise_saved(m) == [m EXCEPT !.exists = TRUE]

\* mediacloud.py:434-441: the params are put into the loaded manifest, which
\* is not saved before discover is called: when discover raises, the
\* persisted manifest is the one that was loaded.
manifest_on_raise(m) == m

\* mediacloud.py:441 and 198-206: discover is not in literal mode and the
\* stories it collected hold one with and one without a publish_date (mixed):
\* its sort raises TypeError, and so does run.
discover_sort_raises(tu, mixed) == ~literal_mode(tu) /\ mixed

\* What run leaves behind when it raises before it has a frontier (the
\* history of the run starts empty and stays so).
RunRaises(error) ==
    /\ pc' = "raised"
    /\ result' = [from |-> "raised", error |-> error]
    /\ writeCalls' = ZeroCalls
    /\ appendCalls' = ZeroCalls
    /\ fellBack' = FALSE
    /\ batchRaised' = FALSE
    /\ lastOutcome' = NoOutcome
    /\ sameAsPrev' = FALSE
    /\ batch_log' = <<>>
    /\ UNCHANGED <<docs, index, use_concurrent, discovered, frontier, i,
                   added, skipped_quality, skipped_text_extraction,
                   failed_urls, batch_num, total_result, docs0, confvars>>

\* run: load the manifest, take the params, discover, filter, compute the
\* frontier and enter the processing path the params select. What discover
\* and the filters hand over is the test URLs that pass the filters or, from
\* the discovery service, any list of at most MaxDiscovered URLs (the
\* pagination of discover is followed step by step under SpecDiscover).
DiscoveredLists(tu) ==
    IF literal_mode(tu)
    THEN {apply_filters(tu, blacklisted) : blacklisted \in SUBSET Urls}
    ELSE SeqsUpTo(Urls, MaxDiscovered)

RunStart(flag, disc) ==
    /\ use_concurrent' = flag
    /\ discovered' = disc
    /\ frontier' = FrontierOf(pairs(disc), docs)
    /\ sameAsPrev' = (pc = "returned" /\ disc = discovered
                       /\ flag = use_concurrent)
    /\ docs0' = docs
    /\ writeCalls' = ZeroCalls
    /\ appendCalls' = ZeroCalls
    /\ fellBack' = FALSE
    /\ batchRaised' = FALSE
    /\ lastOutcome' = NoOutcome
    /\ result' = NoResult
    /\ batch_num' = 0
    /\ total_result' = ZeroTotal
    /\ batch_log' = <<>>
    /\ IF flag
       THEN /\ pc' = "concurrent"
            /\ UNCHANGED <<i, added, skipped_quality,
                           skipped_text_extraction, failed_urls>>
       ELSE EnterSequential
    /\ UNCHANGED <<docs, index, manifest, confvars>>

Run ==
    /\ UNCHANGED <<dvars, fvars>>
    /\ pc \in {"idle", "returned", "raised"}
    /\ runNo < MaxRuns
    /\ runNo' = runNo + 1
    /\ \E given \in BOOLEAN :
        IF ~given /\ ~manifest.exists
        THEN \* "No manifest found; first run must provide params."
             /\ RunRaises("No manifest found")
             /\ UNCHANGED manifest
        ELSE \E tu \in TestUrlLists, cid \in BOOLEAN, mixed \in BOOLEAN :
            IF collection_missing(tu, cid)
            THEN \* "collection_id must be provided ..."
                 /\ ~mixed
                 /\ RunRaises("collection_id must be provided")
                 /\ manifest' = manifest_on_raise(manifest)
            ELSE IF discover_sort_raises(tu, mixed)
            THEN \* TypeError out of all_stories.sort
                 /\ RunRaises("TypeError")
                 /\ manifest' = manifest_on_raise(manifest)
            ELSE /\ ~mixed
                 /\ \E flag \in BOOLEAN, disc \in DiscoveredLists(tu) :
                      /\ given \/ flag = manifest.params
                      /\ RunStart(flag, disc)

\* ------------------------------------------------ the per-item pipeline
\* The locals and the corpus the loop of _process_sequential works on.
LoopState ==
    [docs |-> docs, index |-> index, added |-> added,
     skipped_quality |-> skipped_quality,
     skipped_text_extraction |-> skipped_text_extraction,
     failed_urls |-> failed_urls, writeCalls |-> writeCalls,
     appendCalls |-> appendCalls]

\* quality_gate with <= in place of < in the length check.
quality_gate_le(len) ==
    IF len = 0 THEN "skipped_text_extraction"
    ELSE IF len <= MinTextLen THEN "skipped_quality"
    ELSE "write"

\* mediacloud.py:487-496: what the two checks on the text decide.
quality_gate(len) ==
    IF len = 0 THEN "skipped_text_extraction"
    ELSE IF len < MinTextLen THEN "skipped_quality"
    ELSE "write"

\* on_item_exception swallowing the failure without a record.
on_item_exception_silent(st, url, err) == st

\* mediacloud.py:544-548: the handler of the per-item try.
on_item_exception(st, url, err) ==
    [st EXCEPT !.failed_urls = Append(@, [url |-> url, error |-> err])]

\* mediacloud.py:479-548: the body of the loop for one frontier entry (url, s),
\* when the outside answers o.
process_item(st, url, s, o) ==
    IF o.raise = "fetch"
    THEN on_item_exception(st, url, o.raise)
    ELSE CASE quality_gate(o.len) = "skipped_text_extraction" ->
                [st EXCEPT !.skipped_text_extraction = @ + 1]
           [] quality_gate(o.len) = "skipped_quality" ->
                [st EXCEPT !.skipped_quality = @ + 1]
           [] OTHER ->
                IF o.raise = "write"
                THEN on_item_exception(
                         [st EXCEPT !.writeCalls[s] = @ + 1], url, o.raise)
                ELSE LET w == [st EXCEPT !.docs = write_document(@, s),
                                         !.writeCalls[s] = @ + 1]
                     IN  IF o.raise = "index"
                         THEN on_item_exception(
                                  [w EXCEPT !.appendCalls[s] = @ + 1], url,
                                  o.raise)
                         ELSE [w EXCEPT !.index = append_index(@, s),
                                        !.appendCalls[s] = @ + 1,
                                        !.added = @ + 1]

\* One iteration of the loop of _process_sequential.
SeqStep ==
    /\ UNCHANGED <<dvars, fvars>>
    /\ pc = "sequential"
    /\ i <= Len(frontier)
    /\ \E o \in Outcomes :
        LET st == process_item(LoopState, frontier[i][1], frontier[i][2], o)
        IN  /\ docs' = st.docs
            /\ index' = st.index
            /\ added' = st.added
            /\ skipped_quality' = st.skipped_quality
            /\ skipped_text_extraction' = st.skipped_text_extraction
            /\ failed_urls' = st.failed_urls
            /\ writeCalls' = st.writeCalls
            /\ appendCalls' = st.appendCalls
            /\ lastOutcome' = o
    /\ i' = i + 1
    /\ UNCHANGED <<manifest, pc, runNo, use_concurrent, discovered, frontier,
                   batch_num, total_result, result, docs0, fellBack,
                   batchRaised, sameAsPrev, confvars, batch_log>>

\* skipped_duplicate counted from the list of discovered items.
skipped_duplicate_of_list == Len(discovered) - Len(frontier)

\* mediacloud.py:476 and 668
skipped_duplicate == Cardinality(discovered_by_url(discovered)) - Len(frontier)

\* mediacloud.py:551-562: the run record of the sequential path.
seq_history_record ==
    [discovered |-> Cardinality(discovered_by_url(discovered)),
     added |-> added,
     skipped_quality |-> skipped_quality,
     skipped_text_extraction |-> skipped_text_extraction,
     skipped_duplicate |-> skipped_duplicate,
     failed |-> Len(failed_urls),
     processing_mode |-> "none"]

\* mediacloud.py:584-593: what _process_sequential returns.
seq_result ==
    [from |-> "sequential",
     discovered |-> Cardinality(discovered_by_url(discovered)),
     added |-> added,
     skipped_quality |-> skipped_quality,
     skipped_text_extraction |-> skipped_text_extraction,
     skipped_duplicate |-> skipped_duplicate,
     failed |-> Len(failed_urls),
     total_docs |-> Cardinality(docs),
     failed_details |-> failed_urls]

\* The locals of a path are gone once run has returned.
DropLocals ==
    /\ i' = 1
    /\ added' = 0
    /\ skipped_quality' = 0
    /\ skipped_text_extraction' = 0
    /\ failed_urls' = <<>>
    /\ batch_num' = 0
    /\ total_result' = ZeroTotal
    /\ batch_log' = <<>>

\* next_doc_count with the count of the earlier runs forgotten.
next_doc_count_reset(m, a) == a

\* mediacloud.py:563  manifest["doc_count"] = manifest.get("doc_count", 0) + added
next_doc_count(m, a) == m.doc_count + a

\* mediacloud.py:550-593: the end of _process_sequential.
SeqFinish ==
    /\ UNCHANGED <<dvars, fvars>>
    /\ pc = "sequential"
    /\ i > Len(frontier)
    /\ manifest' = [exists |-> TRUE,
                    params |-> use_concurrent,
                    history |-> Append(manifest.history, seq_history_record),
                    doc_count |-> next_doc_count(manifest, added)]
    /\ result' = seq_result
    /\ pc' = "returned"
    /\ DropLocals
    /\ UNCHANGED <<docs, index, runNo, use_concurrent, discovered, frontier,
                   docs0, writeCalls, appendCalls, fellBack, batchRaised,
                   lastOutcome, sameAsPrev, confvars>>

\* ------------------------------------------------------ the concurrent path
\* mediacloud.py:600
urls == [k \in 1..Len(frontier) |-> frontier[k][1]]

\* mediacloud.py:603: the default of concurrent_requests.
default_concurrent_requests == 16

\* mediacloud.py:604: the default of download_delay, 0.1 s.
default_download_delay == 1

\* mediacloud.py:604: the least download_delay, 5.0 s.
min_download_delay == 50

\* mediacloud.py:608
total_batches == (Len(urls) + batch_size - 1) \div batch_size

\* mediacloud.py:627-629
batch_urls(b) ==
    SubSeq(urls, b * batch_size + 1, Min(b * batch_size + batch_size, Len(urls)))

\* The corpus a batch job works on.
SpiderState ==
    [docs |-> docs, index |-> index, added |-> 0, skipped_quality |-> 0,
     skipped_text_extraction |-> 0, failed_urls |-> <<>>,
     writeCalls |-> writeCalls, appendCalls |-> appendCalls]

\* run_scrapy_spider on the first n of the urls us with the answers os: every
\* URL goes through the per-item pipeline, under the stable id of the URL.
RECURSIVE spider_items(_, _, _, _)
spider_items(st, us, os, n) ==
    IF n = 0 THEN st
    ELSE process_item(spider_items(st, us, os, n - 1), us[n], sids[us[n]],
                      os[n])

\* The counts a batch job returns.
spider_result(st, n) ==
    [processed_count |-> n,
     added_count |-> st.added,
     failed_count |-> Len(st.failed_urls),
     skipped_quality |-> st.skipped_quality,
     skipped_text_extraction |-> st.skipped_text_extraction]

\* mediacloud.py:649-650: for key in total_result: total_result[key] += ...
accumulate(total, res) ==
    [k \in DOMAIN total |-> total[k] + (IF k \in DOMAIN res THEN res[k] ELSE 0)]

\* The concurrent_requests of the params when they are taken as they are.
concurrent_requests_as_configured(conf) ==
    IF conf = NotSet THEN default_concurrent_requests ELSE conf

\* mediacloud.py:603
concurrent_requests(conf) ==
    Min(IF conf = NotSet THEN default_concurrent_requests ELSE conf, 1)

\* mediacloud.py:604, in tenths of a second.
download_delay(conf) ==
    Max(IF conf = NotSet THEN default_download_delay ELSE conf,
        min_download_delay)

\* mediacloud.py:634-646: what a batch job is started with.
dispatch(us) ==
    [ev |-> "dispatch", urls |-> us,
     concurrent_requests |-> concurrent_requests(conf_concurrent_requests),
     download_delay |-> download_delay(conf_download_delay)]

\* pause_between with a pause after every batch.
pause_after_each(b) == <<[ev |-> "pause"]>>

\* mediacloud.py:655-657: the sleep after batch b (counted from 0).
pause_between(b) ==
    IF b < total_batches - 1 THEN <<[ev |-> "pause"]>> ELSE <<>>

\* mediacloud.py:626-657: one batch whose job returns.
ConcBatch ==
    /\ UNCHANGED <<dvars, fvars>>
    /\ pc = "concurrent"
    /\ batch_num < total_batches
    /\ batch_log' = batch_log
                       \o <<dispatch(batch_urls(batch_num)),
                            [ev |-> "returned"]>>
                       \o pause_between(batch_num)
    /\ LET us == batch_urls(batch_num)
       IN  \E os \in [1..Len(us) -> Outcomes] :
             LET st == spider_items(SpiderState, us, os, Len(us))
             IN  /\ docs' = st.docs
                 /\ index' = st.index
                 /\ writeCalls' = st.writeCalls
                 /\ appendCalls' = st.appendCalls
                 /\ total_result' =
                        accumulate(total_result, spider_result(st, Len(us)))
    /\ batch_num' = batch_num + 1
    /\ UNCHANGED <<manifest, pc, runNo, use_concurrent, discovered, frontier,
                   i, added, skipped_quality, skipped_text_extraction,
                   failed_urls, result, docs0, fellBack, batchRaised,
                   lastOutcome, sameAsPrev, confvars>>

\* fallback_frontier handing over every discovered item.
fallback_discovered(fr, done) == pairs(discovered)

\* fallback_frontier handing over only the batches not yet completed.
fallback_remainder(fr, done) == SubSeq(fr, done * batch_size + 1, Len(fr))

\* mediacloud.py:687: the frontier the handler hands to _process_sequential.
fallback_frontier(fr, done) == fr

\* mediacloud.py:682-687: except Exception: fall back to _process_sequential.
Fallback ==
    /\ frontier' = fallback_frontier(frontier, batch_num)
    /\ fellBack' = TRUE
    /\ batch_num' = 0
    /\ total_result' = ZeroTotal
    /\ batch_log' = <<>>
    /\ EnterSequential

\* mediacloud.py:615 and 634-646: the import of the spider raises (before the
\* first batch), or a batch job raises after it handled some of its URLs.
ConcRaise ==
    /\ UNCHANGED <<dvars, fvars>>
    /\ pc = "concurrent"
    /\ batch_num = 0 \/ batch_num < total_batches
    /\ LET us == IF batch_num < total_batches THEN batch_urls(batch_num)
                 ELSE <<>>
       IN  \E n \in 0..Len(us) : \E os \in [1..n -> Outcomes] :
             LET st == spider_items(SpiderState, us, os, n)
             IN  /\ docs' = st.docs
                 /\ index' = st.index
                 /\ writeCalls' = st.writeCalls
                 /\ appendCalls' = st.appendCalls
    /\ batchRaised' = TRUE
    /\ Fallback
    /\ UNCHANGED <<manifest, runNo, use_concurrent, discovered, result,
                   docs0, lastOutcome, sameAsPrev, confvars>>

\* mediacloud.py:662-676: the run record of the concurrent path.
conc_history_record(res) ==
    [discovered |-> Cardinality(discovered_by_url(discovered)),
     added |-> res["added"],
     skipped_quality |-> res["skipped_quality"],
     skipped_text_extraction |-> res["skipped_text_extraction"],
     skipped_duplicate |-> skipped_duplicate,
     failed |-> res["failed"],
     processing_mode |-> "concurrent"]

\* The keys mediacloud.py:662-677 reads from result.
manifest_update_keys ==
    {"added", "skipped_quality", "skipped_text_extraction", "failed"}

\* mediacloud.py:659-687: after the last batch: the manifest update and the
\* return, or the handler when a key it reads is missing (KeyError).
ConcFinish ==
    /\ UNCHANGED <<dvars, fvars>>
    /\ pc = "concurrent"
    /\ batch_num = total_batches
    /\ IF manifest_update_keys \subseteq DOMAIN total_result
       THEN /\ manifest' =
                  [exists |-> TRUE,
                   params |-> use_concurrent,
                   history |-> Append(manifest.history,
                                      conc_history_record(total_result)),
                   doc_count |-> manifest.doc_count + total_result["added"]]
            /\ result' = [from |-> "concurrent"] @@ total_result
            /\ pc' = "returned"
            /\ DropLocals
            /\ UNCHANGED <<frontier, fellBack>>
       ELSE /\ Fallback
            /\ UNCHANGED <<manifest, result>>
    /\ UNCHANGED <<docs, index, runNo, use_concurrent, discovered, docs0,
                   writeCalls, appendCalls, batchRaised, lastOutcome,
                   sameAsPrev, confvars>>

\* ---------------------------------------------------------------- discover
\* The pages the discovery service may hold for the query. Story n > 0 was
\* published on day n; story 0 has no publish_date.
Upstreams ==
    {<<>>, <<<<0, 2>>>>, <<<<1, 2>>, <<3>>>>, <<<<1>>, <<2>>, <<>>>>}

\* mc_api.story_list: the page the token asks for and the token of the page
\* after it (0 when there is none).
story_list(up, token) ==
    [pages |-> IF token + 1 <= Len(up) THEN up[token + 1] ELSE <<>>,
     token |-> IF token + 1 < Len(up) THEN token + 1 ELSE 0]

\* cap_reached with the cap reached only once it is exceeded.
cap_exceeded(n) == max_stories # 0 /\ n > max_stories

\* mediacloud.py:124 and 150: the item cap is set and reached.
cap_reached(n) == max_stories # 0 /\ n >= max_stories

\* mediacloud.py:143-153: the stories of a page are added one by one until
\* the cap is reached.
RECURSIVE take_page(_, _)
take_page(qs, page) ==
    IF page = <<>> THEN qs
    ELSE LET q1 == Append(qs, Head(page))
         IN  IF cap_reached(Len(all_stories) + Len(q1)) THEN q1
             ELSE take_page(q1, Tail(page))

\* retry_wait_for with the timeout row checked before the 403 row.
retry_wait_timeout_first(e) ==
    IF contains(STimeout, lower(e)) \/ contains(SReadTimedOut, lower(e))
    THEN 30
    ELSE IF contains(S403, e) THEN 60
    ELSE IF contains(SConnection, lower(e)) \/ contains(SNetwork, lower(e))
    THEN 45
    ELSE 15

\* mediacloud.py:161-181: the wait for the stringified error, in seconds.
retry_wait_for(e) ==
    IF contains(S403, e) THEN 60
    ELSE IF contains(STimeout, lower(e)) \/ contains(SReadTimedOut, lower(e))
    THEN 30
    ELSE IF contains(SConnection, lower(e)) \/ contains(SNetwork, lower(e))
    THEN 45
    ELSE 15

\* retry_wait_for on the error texts the page calls raise with.
retry_waits == [e \in ErrorStrings |-> retry_wait_for(e)]

\* mediacloud.py:95: the default of cache_max_age_hours.
cache_max_age_hours == 24

\* search_cache.get_search_results: the stories of the entry of the query
\* when there is one younger than max_age hours, None (hit FALSE) otherwise.
get_search_results(cache, k, max_age) ==
    IF cache[k].present /\ cache[k].age < max_age
    THEN [hit |-> TRUE, stories |-> cache[k].stories]
    ELSE [hit |-> FALSE, stories |-> <<>>]

\* search_cache.cache_search_results: the entry of the query is replaced.
cache_search_results(cache, k, stories) ==
    [cache EXCEPT ![k] = [present |-> TRUE, stories |-> stories, age |-> 0]]

\* The url of a story of the discovery service.
StoryUrl(n) ==
    CASE n = 1 -> UA
      [] n = 2 -> UB
      [] OTHER -> UC

\* mediacloud.py:56-64: one DiscoveryItem per test URL.
test_items(tu) ==
    [k \in 1..Len(tu) |-> [url |-> tu[k], source |-> "test", story_id |-> 0]]

\* use_cached with a cache answer that is never taken.
use_cached_never(cached) == FALSE

\* mediacloud.py:107  if cached_stories is not None:
use_cached(cached) == cached.hit

\* token_after_error with the pagination starting over.
token_after_error_reset(token) == 0

\* mediacloud.py:160-181: the handler assigns nothing to pagination_token
\* before it goes on with the loop.
token_after_error(token) == token

\* mediacloud.py:200-201: the story has a publish_date (a date, a datetime or
\* a string, mediacloud.py:690).
has_publish_date(n) == n # 0

\* mediacloud.py:198-206: the sort key of a story is its publish_date or,
\* without one, the int 0; sorting compares a date with an int as soon as
\* both kinds of key are there, which raises TypeError.
sort_raises(s) ==
    \E j, k \in 1..Len(s) : has_publish_date(s[j]) /\ ~has_publish_date(s[k])

\* mediacloud.py:206: stories sorted by publish_date, most recent first.
RECURSIVE InsertDesc(_, _)
InsertDesc(n, s) ==
    IF s = <<>> THEN <<n>>
    ELSE IF n > Head(s) THEN <<n>> \o s
    ELSE <<Head(s)>> \o InsertDesc(n, Tail(s))

RECURSIVE SortDesc(_)
SortDesc(s) ==
    IF s = <<>> THEN <<>> ELSE InsertDesc(Head(s), SortDesc(Tail(s)))

\* mediacloud.py:210-248: one DiscoveryItem per story.
story_items(stories) ==
    [k \in 1..Len(stories) |->
        [url |-> StoryUrl(stories[k]), source |-> "mediacloud",
         story_id |-> stories[k]]]

\* mediacloud.py:52-95: discover takes its params; in literal mode it yields
\* the test items and returns, without a collection id it raises.
DiscoverStart ==
    /\ UNCHANGED <<runvars, fvars>>
    /\ d_pc \in {"idle", "done", "raised"}
    /\ \E tu \in TestUrlLists, cid \in BOOLEAN, uc \in BOOLEAN,
          cap \in 0..MaxCap, nq \in 0..MaxQueries :
        /\ test_urls' = tu
        /\ collection_id' = cid
        /\ use_cache' = uc
        /\ max_stories' = cap
        /\ queries' = nq
        /\ IF literal_mode(tu)
           THEN \* the other params are not read
                /\ uc /\ cap = 0 /\ nq = 0
                /\ yielded' = test_items(tu)
                /\ d_pc' = "done"
           ELSE IF ~cid
           THEN \* "collection_id must be provided ..."
                /\ uc /\ cap = 0 /\ nq = 0
                /\ yielded' = <<>>
                /\ d_pc' = "raised"
           ELSE /\ yielded' = <<>>
                /\ d_pc' = "query"
    /\ upstream' = <<>>
    /\ all_stories' = <<>>
    /\ query_stories' = <<>>
    /\ pagination_token' = 0
    /\ more_stories' = FALSE
    /\ error_str' = <<>>
    /\ retry_wait' = 0
    /\ api_errors' = 0
    /\ q' = 1
    /\ page_calls' = 0
    /\ cache_reads' = 0
    /\ courtesy_waits' = 0
    /\ UNCHANGED search_cache

\* mediacloud.py:97-117: the next query: its cached stories are taken, or
\* its pagination starts.
QueryStart ==
    /\ UNCHANGED <<runvars, fvars>>
    /\ d_pc = "query"
    /\ q <= queries
    /\ LET cached == IF use_cache
                     THEN get_search_results(search_cache, q,
                                             cache_max_age_hours)
                     ELSE [hit |-> FALSE, stories |-> <<>>]
       IN  /\ cache_reads' = IF use_cache THEN cache_reads + 1
                             ELSE cache_reads
           /\ IF use_cached(cached)
              THEN /\ all_stories' = all_stories \o cached.stories
                   /\ q' = q + 1
                   /\ UNCHANGED <<d_pc, upstream, query_stories,
                                  pagination_token, more_stories>>
              ELSE /\ \E up \in Upstreams : upstream' = up
                   /\ query_stories' = <<>>
                   /\ pagination_token' = 0
                   /\ more_stories' = TRUE
                   /\ d_pc' = "paging"
                   /\ UNCHANGED <<all_stories, q>>
    /\ UNCHANGED <<max_stories, error_str, retry_wait, api_errors, test_urls,
                   collection_id, use_cache, queries, search_cache,
                   page_calls, yielded, courtesy_waits>>

\* mediacloud.py:119-158: one turn of the loop whose page call returns (or
\* that stops at the cap before calling).
PageCall ==
    /\ UNCHANGED <<runvars, fvars>>
    /\ d_pc = "paging"
    /\ more_stories
    /\ IF cap_reached(Len(all_stories) + Len(query_stories))
       THEN /\ more_stories' = FALSE
            /\ UNCHANGED <<query_stories, pagination_token, page_calls>>
       ELSE LET r == story_list(upstream, pagination_token)
                qs == take_page(query_stories, r.pages)
            IN  /\ pagination_token' = r.token
                /\ query_stories' = qs
                /\ page_calls' = page_calls + 1
                /\ more_stories' =
                       IF r.pages = <<>> THEN FALSE
                       ELSE IF cap_reached(Len(all_stories) + Len(qs))
                       THEN FALSE
                       ELSE r.token # 0
    /\ UNCHANGED <<d_pc, upstream, max_stories, all_stories, error_str,
                   retry_wait, api_errors, test_urls, collection_id,
                   use_cache, queries, q, search_cache, cache_reads, yielded,
                   courtesy_waits>>

\* mediacloud.py:129-136 and 160-181: one turn of the loop whose page call
\* raises: the wait is chosen and slept, and the loop goes on.
PageCallRaises ==
    /\ UNCHANGED <<runvars, fvars>>
    /\ d_pc = "paging"
    /\ more_stories
    /\ ~cap_reached(Len(all_stories) + Len(query_stories))
    /\ \E e \in ErrorStrings :
        /\ error_str' = e
        /\ retry_wait' = retry_waits[e]
    /\ api_errors' = Min(api_errors + 1, MaxApiErrors)
    /\ pagination_token' = token_after_error(pagination_token)
    /\ UNCHANGED <<d_pc, upstream, max_stories, all_stories, query_stories,
                   more_stories, test_urls, collection_id, use_cache,
                   queries, q, search_cache, page_calls, cache_reads,
                   yielded, courtesy_waits>>

\* The locals of the pagination of a query are gone once the query is done.
DropQueryLocals ==
    /\ upstream' = <<>>
    /\ query_stories' = <<>>
    /\ pagination_token' = 0
    /\ error_str' = <<>>
    /\ retry_wait' = 0
    /\ api_errors' = 0

\* mediacloud.py:183-192: the stories of the query are cached and join the
\* others, and the rate limiter is waited for.
QueryDone ==
    /\ UNCHANGED <<runvars, fvars>>
    /\ d_pc = "paging"
    /\ ~more_stories
    /\ search_cache' =
           IF query_stories # <<>> /\ use_cache
           THEN cache_search_results(search_cache, q, query_stories)
           ELSE search_cache
    /\ all_stories' = all_stories \o query_stories
    /\ q' = q + 1
    /\ d_pc' = "query"
    /\ courtesy_waits' = courtesy_waits + 1
    /\ DropQueryLocals
    /\ UNCHANGED <<max_stories, more_stories, test_urls, collection_id,
                   use_cache, queries, page_calls, cache_reads, yielded>>

\* mediacloud.py:194-251: after the last query the stories are sorted and
\* yielded as DiscoveryItems, unless the sort raises.
DiscoverEnd ==
    /\ UNCHANGED <<runvars, fvars>>
    /\ d_pc = "query"
    /\ q > queries
    /\ IF sort_raises(all_stories)
       THEN /\ yielded' = <<>>
            /\ d_pc' = "raised"
       ELSE /\ yielded' = story_items(SortDesc(all_stories))
            /\ d_pc' = "done"
    /\ all_stories' = <<>>
    /\ UNCHANGED <<upstream, max_stories, query_stories, pagination_token,
                   more_stories, error_str, retry_wait, api_errors,
                   test_urls, collection_id, use_cache, queries, q,
                   search_cache, page_calls, cache_reads, courtesy_waits>>

\* Time passes between two calls of discover: the entries of the Search
\* Result Cache get older than cache_max_age_hours.
HoursPass ==
    /\ UNCHANGED <<runvars, fvars>>
    /\ d_pc \in {"idle", "done", "raised"}
    /\ \E k \in 1..MaxQueries :
        search_cache[k].present /\ search_cache[k].age < cache_max_age_hours
    /\ search_cache' =
           [k \in 1..MaxQueries |->
               IF search_cache[k].present
               THEN [search_cache[k] EXCEPT !.age = cache_max_age_hours]
               ELSE search_cache[k]]
    /\ UNCHANGED <<d_pc, upstream, max_stories, all_stories, query_stories,
                   pagination_token, more_stories, error_str, retry_wait,
                   api_errors, test_urls, collection_id, use_cache, queries,
                   q, page_calls, cache_reads, yielded, courtesy_waits>>

NextDiscover ==
    \/ DiscoverStart
    \/ QueryStart
    \/ PageCall
    \/ PageCallRaises
    \/ QueryDone
    \/ DiscoverEnd
    \/ HoursPass

SpecDiscover == Init /\ [][NextDiscover]_vars

\* discover runs on as long as it has a step to take.
FairSpecDiscover == SpecDiscover /\ WF_vars(NextDiscover)

\* -------------------------------------------------------- _prepare_queries
\* The text of a term or of a query is a sequence of pieces: " " is white
\* space, the other pieces hold none at their ends. A list is at most this
\* long, and a keywords mapping has at most MaxGroups languages.
MaxTerms == 2

MaxGroups == 2

Vaccine == <<"vaccine">>

Mandate == <<"mandate">>

PaddedTerm == <<" ", "vaccine", " ">>

BlankTerm == <<" ">>

QuotedTerm == <<"\"", "vaccine", "\"">>

StructuredTerm == <<"vaccine", " or ", "mandate">>

InnerQuoteTerm == <<"5", "\"", "g">>

\* The lists params.extra['queries'] may hold (<<>>: not set or empty).
QueryLists == SeqsUpTo({Vaccine, PaddedTerm, BlankTerm}, MaxTerms)

\* The word lists of a language in params.extra['keywords'].
WordLists ==
    {<<>>, <<Vaccine, Mandate>>, <<BlankTerm, PaddedTerm>>,
     <<InnerQuoteTerm, StructuredTerm>>}

\* The mappings params.extra['keywords'] may hold: the word lists of its
\* languages, in the order of the mapping (<<>>: not set or empty).
KeywordMaps == SeqsUpTo(WordLists, MaxGroups)

\* The lists params.keywords may hold.
KeywordLists ==
    SeqsUpTo({Vaccine, Mandate, PaddedTerm, BlankTerm, QuotedTerm}, MaxTerms)

\* str.strip()
RECURSIVE str_lstrip(_)
str_lstrip(t) ==
    IF t # <<>> /\ Head(t) = " " THEN str_lstrip(Tail(t)) ELSE t

RECURSIVE str_rstrip(_)
str_rstrip(t) ==
    IF t # <<>> /\ t[Len(t)] = " "
    THEN str_rstrip(SubSeq(t, 1, Len(t) - 1))
    ELSE t

str_strip(t) == str_rstrip(str_lstrip(t))

\* mediacloud.py:282  any(op in t.upper() for op in [" OR ", " AND ", "(", ")"])
looks_structured(t) ==
    \E k \in 1..Len(t) : t[k] \in {" OR ", " or ", " AND ", " and ", "(", ")"}

\* mediacloud.py:285
already_quoted(t) ==
    /\ t # <<>>
    /\ \/ Head(t) = "\"" /\ t[Len(t)] = "\""
       \/ Head(t) = "'" /\ t[Len(t)] = "'"

\* mediacloud.py:288  t.replace('"', '\\"')
escape_quotes(t) ==
    [k \in 1..Len(t) |-> IF t[k] = "\"" THEN "\\\"" ELSE t[k]]

\* mediacloud.py:279-289
quote_term(term) ==
    LET t == str_strip(term)
    IN  IF looks_structured(t) THEN t
        ELSE IF already_quoted(t) THEN t
        ELSE <<"\"">> \o escape_quotes(t) \o <<"\"">>

\* ' OR '.join(parts)
RECURSIVE join_or(_)
join_or(parts) ==
    IF parts = <<>> THEN <<>>
    ELSE IF Len(parts) = 1 THEN parts[1]
    ELSE parts[1] \o <<" OR ">> \o join_or(Tail(parts))

\* f"({' OR '.join(parts)})"
or_group(parts) == <<"(">> \o join_or(parts) \o <<")">>

\* [_quote_term(w) for w in words if str(w).strip()]
quoted_terms(words) ==
    LET kept == SelectSeq(words, LAMBDA w : str_strip(w) # <<>>)
    IN  [k \in 1..Len(kept) |-> quote_term(kept[k])]

\* mediacloud.py:292-301
compile_keywords_map_to_query(keywords_by_lang) ==
    LET with_terms ==
            SelectSeq(keywords_by_lang, LAMBDA ws : quoted_terms(ws) # <<>>)
        groups ==
            [k \in 1..Len(with_terms) |-> or_group(quoted_terms(with_terms[k]))]
    IN  IF groups = <<>> THEN <<>> ELSE or_group(groups)

\* prepare_queries with the keywords mapping looked at before the raw queries.
prepare_queries_map_first(eq, ek, pk) ==
    IF ek # <<>> THEN <<compile_keywords_map_to_query(ek)>>
    ELSE IF eq # <<>>
    THEN LET stripped == [k \in 1..Len(eq) |-> str_strip(eq[k])]
         IN  SelectSeq(stripped, LAMBDA t : t # <<>>)
    ELSE IF pk # <<>>
    THEN IF quoted_terms(pk) = <<>> THEN <<>>
         ELSE <<or_group(quoted_terms(pk))>>
    ELSE <<>>

\* mediacloud.py:253-276
prepare_queries(eq, ek, pk) ==
    IF eq # <<>>
    THEN LET stripped == [k \in 1..Len(eq) |-> str_strip(eq[k])]
         IN  SelectSeq(stripped, LAMBDA t : t # <<>>)
    ELSE IF ek # <<>> THEN <<compile_keywords_map_to_query(ek)>>
    ELSE IF pk # <<>>
    THEN IF quoted_terms(pk) = <<>> THEN <<>>
         ELSE <<or_group(quoted_terms(pk))>>
    ELSE <<>>

\* discover may be called with any params.
InitQueries ==
    /\ InitBuilder
    /\ InitCvars
    /\ extra_queries \in QueryLists
    /\ extra_keywords \in KeywordMaps
    /\ params_keywords \in KeywordLists
    /\ query_strings = <<>>
    /\ InitMvars
    /\ InitXvars

\* mediacloud.py:52-95: discover, not in literal mode and with a collection
\* id, prepares its queries from the params.
DiscoverPrepare ==
    /\ UNCHANGED <<runvars, cvars, mvars, xvars>>
    /\ d_pc = "idle"
    /\ query_strings' =
           prepare_queries(extra_queries, extra_keywords, params_keywords)
    /\ queries' = Len(query_strings')
    /\ d_pc' = "query"
    /\ UNCHANGED <<extra_queries, extra_keywords, params_keywords>>
    /\ UNCHANGED <<upstream, max_stories, all_stories, query_stories,
                   pagination_token, more_stories, error_str, retry_wait,
                   api_errors, test_urls, collection_id, use_cache, q,
                   search_cache, page_calls, cache_reads, yielded,
                   courtesy_waits>>

NextQueries == DiscoverPrepare \/ DiscoverEnd

SpecQueries == InitQueries /\ [][NextQueries]_vars

\* ------------------------------------------------------- the metadata merge
\* Python's `a or b`, with NoValue for what is falsy.
or_else(a, b) == IF a # NoValue THEN a ELSE b

\* The same for lists.
or_else_list(a, b) == IF a # <<>> THEN a ELSE b

\* What the text extractor may return besides the text.
ParsedMetas ==
    [title : {NoValue, "parsed title"},
     published_at : {NoValue, "2024-01-02"},
     language : {NoValue, "fr"},
     authors : {<<>>, <<"parsed author">>}]

\* The DiscoveryItem of the url (found) or None.
DiscoveredItems ==
    {[found |-> FALSE] @@ NoMeta}
    \cup [found : {TRUE},
          title : {NoValue, "discovered title"},
          published_at : {NoValue, "2024-01-01"},
          language : {NoValue, "en"},
          authors : {<<>>, <<"discovered author">>}]

\* mediacloud.py:505-508
merge_metadata(p, d) ==
    [title |-> or_else(p.title, IF d.found THEN d.title ELSE NoValue),
     published_at |->
         or_else(IF d.found THEN d.published_at ELSE NoValue, p.published_at),
     language |-> or_else(p.language, IF d.found THEN d.language ELSE NoValue),
     authors |-> or_else_list(p.authors, IF d.found THEN d.authors ELSE <<>>)]

\* An item reaches the merge with any answer of the extractor and any
\* discovery item.
InitMerge ==
    /\ InitBuilder
    /\ InitCvars
    /\ InitQvars
    /\ parsed \in ParsedMetas
    /\ discovered_item \in DiscoveredItems
    /\ meta = NoMeta
    /\ InitXvars

\* mediacloud.py:498-529: the meta of the document that is written.
MergeMetadata ==
    /\ pc = "idle"
    /\ meta' = merge_metadata(parsed, discovered_item)
    /\ pc' = "merged"
    /\ UNCHANGED <<parsed, discovered_item, dvars, cvars, qvars, xvars>>
    /\ UNCHANGED <<docs, index, manifest, runNo, use_concurrent, discovered,
                   frontier, i, added, skipped_quality,
                   skipped_text_extraction, failed_urls, batch_num,
                   total_result, result, docs0, writeCalls, appendCalls,
                   fellBack, batchRaised, lastOutcome, sameAsPrev, confvars,
                   batch_log>>

NextMerge == MergeMetadata

SpecMerge == InitMerge /\ [][NextMerge]_vars

\* ------------------------------------------- _process_concurrent on its own
\* The frontier handed to _process_concurrent is at most this long.
MaxFrontier == 6

\* The url discover yielded at position k.
UrlAt(k) ==
    CASE k % 3 = 1 -> UA
      [] k % 3 = 2 -> UC
      [] OTHER -> UB

\* The values params.extra['concurrent_requests'] may hold.
ConcurrentRequestsConfs == {NotSet, 1, 4}

\* The values params.extra['download_delay'] may hold, in tenths of a second.
DownloadDelayConfs == {NotSet, 0, 100}

\* run has entered _process_concurrent on a first run with params, an empty
\* corpus and any number of discovered items.
InitBatches ==
    /\ InitDiscover
    /\ InitCvars
    /\ InitQvars
    /\ InitMvars
    /\ InitXvars
    /\ docs = {}
    /\ index = <<>>
    /\ manifest = [exists |-> FALSE, params |-> TRUE, history |-> <<>>,
                   doc_count |-> 0]
    /\ pc = "concurrent"
    /\ runNo = 1
    /\ use_concurrent = TRUE
    /\ discovered \in {[k \in 1..n |-> UrlAt(k)] : n \in 0..MaxFrontier}
    /\ frontier = FrontierOf(pairs(discovered), docs)
    /\ i = 1
    /\ added = 0
    /\ skipped_quality = 0
    /\ skipped_text_extraction = 0
    /\ failed_urls = <<>>
    /\ batch_num = 0
    /\ total_result = ZeroTotal
    /\ result = NoResult
    /\ docs0 = {}
    /\ writeCalls = ZeroCalls
    /\ appendCalls = ZeroCalls
    /\ fellBack = FALSE
    /\ batchRaised = FALSE
    /\ lastOutcome = NoOutcome
    /\ sameAsPrev = FALSE
    /\ conf_concurrent_requests \in ConcurrentRequestsConfs
    /\ conf_download_delay \in DownloadDelayConfs
    /\ batch_log = <<>>

NextBatches == ConcBatch \/ ConcRaise \/ ConcFinish

SpecBatches == InitBatches /\ [][NextBatches]_vars

Next == Run \/ SeqStep \/ SeqFinish \/ ConcBatch \/ ConcRaise \/ ConcFinish

Spec == Init /\ [][Next]_vars

\* ------------------------------------------------- run with the filters
\* discover yields at most this many items.
MaxRaw == 2

\* The lists params.extra['domain_blacklist'] may hold.
DomainBlacklists == {<<>>, <<<<"x.com">>>>, <<<<"Y.COM">>>>}

\* The lists params.extra['url_blacklist'] may hold.
UrlBlacklists == {<<>>, <<<<"/A">>>>, <<<<"utm_source">>>>}

\* A first run on an empty corpus, with any blacklists in the params.
InitFilters ==
    /\ InitBuilder
    /\ InitCvars
    /\ InitQvars
    /\ InitMvars
    /\ raw_items = <<>>
    /\ domain_blacklist \in DomainBlacklists
    /\ url_blacklist \in UrlBlacklists
    /\ InitLvars
    /\ InitTvars

\* mediacloud.py:441-465: run takes what discover yields, applies the
\* filters, computes the frontier and enters the path the params select.
RunFiltered ==
    /\ UNCHANGED <<dvars, cvars, qvars, mvars, domain_blacklist,
                   url_blacklist, lvars, tvars>>
    /\ pc = "idle"
    /\ runNo' = runNo + 1
    /\ \E flag \in BOOLEAN, raw \in SeqsUpTo(FilterUrls, MaxRaw) :
        /\ raw_items' = raw
        /\ RunStart(flag,
                    apply_filters(raw, blacklisted_urls(domain_blacklist,
                                                        url_blacklist)))

NextFilters ==
    RunFiltered \/ SeqStep \/ SeqFinish \/ ConcBatch \/ ConcRaise \/ ConcFinish

SpecFilters == InitFilters /\ [][NextFilters]_vars

\* ------------------------------------------------- OpenAIInterface.infer
\* config.max_retries is at most this.
MaxRetries == 3

\* infer is called at most this many times.
MaxInfers == 3

\* openai_interface.py:35
retry_delay == 1

\* openai_interface.py:159  response.choices[0].message.content
Content == [content |-> "content"]

\* openai_interface.py:168-171: the JSON text of the error object.
error_response ==
    [error |-> "OpenAI API error after max_retries attempts",
     score |-> 0,
     rationale |-> "API call failed"]

\* openai_interface.py:120  cache_manager.get(model, messages, parameters)
cache_get(c, m) == c[m]

\* openai_interface.py:138-144  cache_manager.put(...)
cache_put(c, m, r) == [c EXCEPT ![m] = [present |-> TRUE, response |-> r]]

\* An interface with any config and an empty cache.
InitInfer ==
    /\ InitBuilder
    /\ InitCvars
    /\ InitQvars
    /\ InitMvars
    /\ InitBvars
    /\ InitTvars
    /\ l_pc = "idle"
    /\ max_retries \in 0..MaxRetries
    /\ ignore_cache \in BOOLEAN
    /\ messages = "m1"
    /\ attempt = 0
    /\ response = PyNone
    /\ llm_cache = EmptyLlmCache
    /\ call_log = <<>>
    /\ sleeps = <<>>
    /\ cache_hit = FALSE
    /\ infers = 0

\* openai_interface.py:131-146: _safe_infer has returned r; it is put into
\* the cache and returned.
InferReturns(r) ==
    /\ response' = r
    /\ llm_cache' = cache_put(llm_cache, messages', r)
    /\ l_pc' = "returned"

\* openai_interface.py:99-131 and 150: infer looks into the cache, returns
\* the entry it finds and enters the loop of _safe_infer otherwise; a loop
\* over an empty range ends at once and _safe_infer returns None.
InferStart ==
    /\ UNCHANGED <<runvars, dvars, cvars, qvars, mvars, bvars, tvars,
                   max_retries, ignore_cache>>
    /\ l_pc \in {"idle", "returned"}
    /\ infers < MaxInfers
    /\ infers' = infers + 1
    /\ call_log' = <<>>
    /\ sleeps' = <<>>
    /\ attempt' = 0
    /\ \E m \in Messages :
        /\ messages' = m
        /\ IF ~ignore_cache /\ cache_get(llm_cache, m).present
           THEN /\ cache_hit' = TRUE
                /\ response' = cache_get(llm_cache, m).response
                /\ l_pc' = "returned"
                /\ UNCHANGED llm_cache
           ELSE /\ cache_hit' = FALSE
                /\ IF max_retries <= 0
                   THEN InferReturns(PyNone)
                   ELSE /\ l_pc' = "calling"
                        /\ response' = PyNone
                        /\ UNCHANGED llm_cache

\* openai_interface.py:150-171: one attempt of _safe_infer; the API call
\* returns (ok) or raises.
ApiCall ==
    /\ UNCHANGED <<runvars, dvars, cvars, qvars, mvars, bvars, tvars,
                   max_retries, ignore_cache, messages, cache_hit, infers>>
    /\ l_pc = "calling"
    /\ \E ok \in BOOLEAN :
        /\ call_log' = Append(call_log, ok)
        /\ IF ok
           THEN /\ InferReturns(Content)
                /\ UNCHANGED <<attempt, sleeps>>
           ELSE IF attempt < max_retries - 1
           THEN /\ sleeps' = Append(sleeps, retry_delay * 2 ^ attempt)
                /\ attempt' = attempt + 1
                /\ UNCHANGED <<l_pc, response, llm_cache>>
           ELSE /\ InferReturns(error_response)
                /\ UNCHANGED <<attempt, sleeps>>

NextInfer == InferStart \/ ApiCall

SpecInfer == InitInfer /\ [][NextInfer]_vars

\* ----------------------------------------------------- TextChunker.chunk
\* config.max_words is at most this.
MaxWords == 10

\* The text holds at most this many sentences.
MaxSentences == 3

\* The numbers of words the sentences of the text have.
WordCounts == {1, 5, 11}

\* A sentence: its number of words and whether it starts with a discourse
\* connector (text_chunker.py:309-315), holds a quote attribution (317-322)
\* or neither.
Sentences ==
    [words : WordCounts, kind : {"plain", "connector", "attribution"}]

\* text_chunker.py:285-303: the sentences of a text put into the paragraphs
\* that end after the sentences of breaks.
RECURSIVE split_into_paragraphs(_, _)
split_into_paragraphs(sentences, breaks) ==
    IF sentences = <<>> THEN <<>>
    ELSE LET ends == breaks \cup {Len(sentences)}
             cut == CHOOSE b \in ends : \A c \in ends : b <= c
         IN  <<SubSeq(sentences, 1, cut)>>
             \o split_into_paragraphs(SubSeq(sentences, cut + 1, Len(sentences)),
                                      {c - cut : c \in breaks \ {cut}})

\* The texts chunk is called with: the paragraphs, none empty, each split
\* into its sentences, none empty.
Texts ==
    UNION {{split_into_paragraphs(sentences, breaks) :
                breaks \in SUBSET (1..(Len(sentences) - 1))} :
           sentences \in SeqsUpTo(Sentences, MaxSentences)}

\* text_chunker.py:161
short_sentence_words == 12

\* A sentence as it stands in a chunk: where it came from, how many of its
\* words it still has and whether "..." was put after the last of them.
piece(p, k, n, dots) ==
    [para |-> p, sent |-> k, words |-> n, dots |-> dots,
     kind |-> paragraphs[p][k].kind]

\* text_chunker.py:305-307 on a paragraph
RECURSIVE count_words(_)
count_words(sentences) ==
    IF sentences = <<>> THEN 0
    ELSE Head(sentences).words + count_words(Tail(sentences))

\* text_chunker.py:184  _count_words(text)
RECURSIVE count_words_text(_)
count_words_text(ps) ==
    IF ps = <<>> THEN 0 ELSE count_words(Head(ps)) + count_words_text(Tail(ps))

\* The text as one chunk (text_chunker.py:185).
RECURSIVE whole_text(_)
whole_text(p) ==
    IF p > Len(paragraphs) THEN <<>>
    ELSE [k \in 1..Len(paragraphs[p]) |->
             piece(p, k, paragraphs[p][k].words, FALSE)]
         \o whole_text(p + 1)

\* text_chunker.py:152-155
within_tolerance(potential_word_count) ==
    /\ potential_word_count > max_words
    /\ 10 * potential_word_count <= 11 * max_words

\* text_chunker.py:157-162 and 248-252
should_add(sentence, potential_word_count) ==
    \/ potential_word_count <= max_words
    \/ within_tolerance(potential_word_count) /\ sentence.kind # "plain"
    \/ /\ sentence.words < short_sentence_words
       /\ 2 * current_word_count < max_words

\* chunks.append(' '.join(current_chunk)) when current_chunk is not empty
flushed == IF current_chunk # <<>> THEN Append(chunks, current_chunk) ELSE chunks

\* chunk may be called with any text and any max_words >= 1; only a text
\* that is not empty can hold a quote.
InitChunk ==
    /\ InitBuilder
    /\ InitCvars
    /\ InitQvars
    /\ InitMvars
    /\ InitBvars
    /\ InitLvars
    /\ t_pc = "idle"
    /\ max_words \in 1..MaxWords
    /\ paragraphs \in Texts
    /\ quote_in_text \in {b \in BOOLEAN : b => paragraphs # <<>>}
    /\ para = 1
    /\ sent = 1
    /\ current_chunk = <<>>
    /\ current_word_count = 0
    /\ chunks = <<>>

\* text_chunker.py:95-107 and 180-197: the checks of chunk before its loop.
ChunkStart ==
    /\ UNCHANGED <<runvars, dvars, cvars, qvars, mvars, bvars, lvars,
                   max_words, paragraphs, quote_in_text, para, sent,
                   current_chunk, current_word_count>>
    /\ t_pc = "idle"
    /\ IF paragraphs = <<>>
       THEN /\ chunks' = <<>>
            /\ t_pc' = "done"
       ELSE IF quote_in_text /\ count_words_text(paragraphs) <= max_words
       THEN /\ chunks' = <<whole_text(1)>>
            /\ t_pc' = "done"
       ELSE /\ chunks' = <<>>
            /\ t_pc' = "paragraph"

\* text_chunker.py:109-123 and 199-213: the start of an iteration of the
\* loop over the paragraphs.
ParagraphStart ==
    /\ UNCHANGED <<runvars, dvars, cvars, qvars, mvars, bvars, lvars,
                   max_words, paragraphs, quote_in_text, para>>
    /\ t_pc = "paragraph"
    /\ para <= Len(paragraphs)
    /\ IF current_chunk # <<>> /\ 2 * current_word_count >= max_words
       THEN /\ chunks' = Append(chunks, current_chunk)
            /\ current_chunk' = <<>>
            /\ current_word_count' = 0
       ELSE UNCHANGED <<chunks, current_chunk, current_word_count>>
    /\ sent' = 1
    /\ t_pc' = "sentence"

\* text_chunker.py:125-172 and 215-262: an iteration of the loop over the
\* sentences of the paragraph; a sentence that is cut ends with a full stop
\* (stop) or gets "...".
SentenceStep ==
    /\ UNCHANGED <<runvars, dvars, cvars, qvars, mvars, bvars, lvars,
                   max_words, paragraphs, quote_in_text>>
    /\ t_pc = "sentence"
    /\ LET sentence == paragraphs[para][sent]
           potential_word_count == current_word_count + sentence.words
       IN  IF sentence.words > max_words
           THEN \E stop \in BOOLEAN :
                /\ chunks' = Append(flushed,
                                    <<piece(para, sent, max_words, ~stop)>>)
                /\ current_chunk' = <<>>
                /\ current_word_count' = 0
           ELSE IF should_add(sentence, potential_word_count)
           THEN /\ current_chunk' =
                      Append(current_chunk,
                             piece(para, sent, sentence.words, FALSE))
                /\ current_word_count' = potential_word_count
                /\ UNCHANGED chunks
           ELSE /\ chunks' = flushed
                /\ current_chunk' =
                      <<piece(para, sent, sentence.words, FALSE)>>
                /\ current_word_count' = sentence.words
    /\ IF sent < Len(paragraphs[para])
       THEN /\ sent' = sent + 1
            /\ UNCHANGED <<para, t_pc>>
       ELSE /\ sent' = 1
            /\ para' = para + 1
            /\ t_pc' = "paragraph"

\* text_chunker.py:174-178 and 264-268: the final chunk.
ChunkEnd ==
    /\ UNCHANGED <<runvars, dvars, cvars, qvars, mvars, bvars, lvars,
                   max_words, paragraphs, quote_in_text, para, sent>>
    /\ t_pc = "paragraph"
    /\ para > Len(paragraphs)
    /\ chunks' = flushed
    /\ current_chunk' = <<>>
    /\ current_word_count' = 0
    /\ t_pc' = "done"

NextChunk == ChunkStart \/ ParagraphStart \/ SentenceStep \/ ChunkEnd

SpecChunk == InitChunk /\ [][NextChunk]_vars

\* ------------------------------------------------------------------ claims
\* Index records appended for doc_id s since the frontier was computed.
IndexRecords(s) == Cardinality({k \in 1..Len(index) : index[k] = s})

FrontierSids == {frontier[k][2] : k \in 1..Len(frontier)}

DistinctFrontierSids == Cardinality(FrontierSids) = Len(frontier)

ResultField(f) == IF f \in DOMAIN result THEN result[f] ELSE -1

\* C1: a doc_id that is in the corpus when a run computes its frontier is in
\* no frontier entry, and the run calls neither write_document nor
\* append_index for it.
C1_IdempotencyGate ==
    \A s \in docs0 :
        /\ s \notin FrontierSids
        /\ writeCalls[s] = 0
        /\ appendCalls[s] = 0

\* A run has returned that discovered an item already in the corpus and wrote
\* another document.
C1_Witness ==
    /\ pc = "returned"
    /\ \E k \in 1..Len(discovered) : sids[discovered[k]] \in docs0
    /\ \E s \in Sids : s \notin docs0 /\ writeCalls[s] = 1

\* C2: within one run, here in sequential mode, write_document is called at
\* most once per doc_id and at most one index record is appended for it.
C2_WrittenOncePerRun ==
    ~use_concurrent =>
        \A s \in Sids : writeCalls[s] <= 1 /\ appendCalls[s] <= 1

\* C3 as stated: a second call with the same parameters and the same
\* discovered items returns added = 0 and calls write_document for nothing.
C3_SecondRunAddsNothing ==
    (pc = "returned" /\ sameAsPrev) =>
        /\ ResultField("added") = 0
        /\ \A s \in Sids : writeCalls[s] = 0

\* C3 as amended: in a second call with the same parameters and the same
\* discovered items, no document that is in the corpus after the first call
\* is written again; and when every discovered item is in the corpus after
\* the first call, the frontier is empty, write_document is called for
\* nothing and the call returns added = 0.
C3_SecondRunAmended ==
    sameAsPrev =>
        /\ \A s \in docs0 : writeCalls[s] = 0
        /\ (\A k \in 1..Len(discovered) : sids[discovered[k]] \in docs0) =>
              /\ frontier = <<>>
              /\ \A s \in Sids : writeCalls[s] = 0
              /\ pc = "returned" => ResultField("added") = 0

\* A second call with the same items, all stored by the first, has returned.
C3_Witness ==
    /\ pc = "returned"
    /\ sameAsPrev
    /\ discovered # <<>>
    /\ \A k \in 1..Len(discovered) : sids[discovered[k]] \in docs0
    /\ ResultField("added") = 0
    /\ ResultField("skipped_duplicate") = Cardinality(Range(discovered))

\* C4: when the concurrent path raised after its batches had completed, and
\* the frontier holds distinct doc_ids, the fallback writes no doc_id a second
\* time in the run and none gets a second index record.
C4_FallbackWritesOnce ==
    (fellBack /\ ~batchRaised /\ DistinctFrontierSids) =>
        \A s \in FrontierSids :
            /\ writeCalls[s] <= 1
            /\ appendCalls[s] <= 1
            /\ IndexRecords(s) <= 1

\* C5: once the concurrent path has raised, the sequential path runs over
\* the entire frontier of the run, the run returns the result of the
\* sequential path, and no exception reaches the caller.
C5_FallbackProtocol ==
    /\ batchRaised => fellBack
    /\ fellBack =>
        /\ pc \in {"sequential", "returned"}
        /\ frontier = FrontierOf(pairs(discovered), docs0)
        /\ pc = "sequential" =>
              i - 1 = added + skipped_quality + skipped_text_extraction
                        + Len(failed_urls)
        /\ pc = "returned" =>
              /\ result.from = "sequential"
              /\ result.added + result.skipped_quality
                   + result.skipped_text_extraction + result.failed
                 = Len(frontier)

\* A run whose first batch had completed fell back and returned the result
\* of the sequential path over both frontier entries.
C5_Witness ==
    /\ pc = "returned"
    /\ fellBack
    /\ Len(frontier) = 2
    /\ \E s \in Sids : writeCalls[s] = 2
    /\ result.from = "sequential"
    /\ result.added = 2

\* C6: a run in concurrent mode in which neither the import nor a batch job
\* raised returns from the concurrent path, without the sequential path, with
\* the accumulated totals and a run record marked concurrent.
C6_ConcurrentCompletes ==
    (pc = "returned" /\ use_concurrent /\ ~batchRaised) =>
        /\ ~fellBack
        /\ result.from = "concurrent"
        /\ manifest.history[Len(manifest.history)].processing_mode
             = "concurrent"

IsSeqStep == pc = "sequential" /\ i <= Len(frontier) /\ i' = i + 1

\* C8: an item of the sequential path that raises is recorded in
\* failed_details with its url and error text and changes no counter, the loop
\* goes on with the next item, and the run returns a result whose failed is
\* the length of failed_details, after every frontier item was processed.
C8_FailureIsolation ==
    /\ [][(IsSeqStep /\ lastOutcome'.raise # "none") =>
            /\ failed_urls' = Append(failed_urls,
                                     [url |-> frontier[i][1],
                                      error |-> lastOutcome'.raise])
            /\ pc' = "sequential"
            /\ frontier' = frontier
            /\ added' = added
            /\ skipped_quality' = skipped_quality
            /\ skipped_text_extraction' = skipped_text_extraction]_vars
    /\ [](pc = "sequential" =>
            i - 1 = added + skipped_quality + skipped_text_extraction
                      + Len(failed_urls))
    /\ []((pc = "returned" /\ result.from = "sequential") =>
            /\ result.failed = Len(result.failed_details)
            /\ result.added + result.skipped_quality
                 + result.skipped_text_extraction + result.failed
               = Len(frontier))
    /\ [][pc' = "raised" => pc \in {"idle", "returned", "raised"}]_vars

\* A sequential run whose first item raised went on to add the second.
C8_Witness ==
    /\ pc = "returned"
    /\ ~fellBack
    /\ Len(frontier) = 2
    /\ result.failed = 1
    /\ result.failed_details[1].url = frontier[1][1]
    /\ result.added = 1

\* C9: for an item processed without exception, empty text counts in
\* skipped_text_extraction only, text shorter than 400 characters counts in
\* skipped_quality only, and in both cases nothing is written; text of 400
\* characters or more is written, indexed and counted in added.
C9_QualityGate ==
    [][(IsSeqStep /\ lastOutcome'.raise = "none") =>
          LET len == lastOutcome'.len
              s == frontier[i][2]
          IN  /\ len = 0 =>
                    /\ skipped_text_extraction' = skipped_text_extraction + 1
                    /\ skipped_quality' = skipped_quality
                    /\ added' = added
                    /\ UNCHANGED <<docs, index, writeCalls, appendCalls>>
              /\ (0 < len /\ len < 400) =>
                    /\ skipped_quality' = skipped_quality + 1
                    /\ skipped_text_extraction' = skipped_text_extraction
                    /\ added' = added
                    /\ UNCHANGED <<docs, index, writeCalls, appendCalls>>
              /\ len >= 400 =>
                    /\ added' = added + 1
                    /\ skipped_quality' = skipped_quality
                    /\ skipped_text_extraction' = skipped_text_extraction
                    /\ s \in docs'
                    /\ index' = Append(index, s)
              /\ failed_urls' = failed_urls]_vars

\* A text of 399 characters was skipped for quality after a text of 400
\* characters was added.
C9_Witness ==
    /\ pc = "sequential"
    /\ lastOutcome = [raise |-> "none", len |-> 399]
    /\ skipped_quality = 1
    /\ added = 1
    /\ Len(index) = 1

\* The waits of the retry table for the error texts of ErrorStrings.
ExpectedWait(e) ==
    CASE e = Err403Forbidden -> 60
      [] e = ErrTimeout403 -> 60
      [] e = ErrReadTimedOut -> 30
      [] e = ErrConnTimeout -> 30
      [] e = ErrConnReset -> 45
      [] e = ErrNetworkDown -> 45
      [] OTHER -> 15

\* C10: after a page call raised, the wait handed to the rate limiter is the
\* one of the first matching row of the table: "403" 60 s, "timeout" or
\* "read timed out" 30 s, "connection" or "network" 45 s, anything else 15 s.
C10_RetryClassification ==
    api_errors > 0 => retry_wait = ExpectedWait(error_str)

\* An error text with "403" and "timeout" got the wait of the 403 row.
C10_Witness ==
    /\ api_errors > 0
    /\ error_str = ErrTimeout403
    /\ retry_wait = 60

\* The stories of the pages of an upstream, up to the end of its pagination.
RECURSIVE AllPages(_)
AllPages(up) ==
    IF up = <<>> THEN <<>>
    ELSE IF Head(up) = <<>> THEN <<>>
    ELSE Head(up) \o AllPages(Tail(up))

\* The step is a turn of the pagination loop whose page call raised.
IsRetry ==
    /\ d_pc = "paging"
    /\ more_stories
    /\ api_errors' # api_errors \/ error_str' # error_str

\* C11: a page call that raises leaves the query, its pagination token and
\* the stories accumulated so far as they are and the loop goes on, so that
\* a pagination that ends without a cap holds each story of each page exactly
\* once, in page order, however many calls raised.
C11_RetryKeepsProgress ==
    /\ [][IsRetry =>
            /\ pagination_token' = pagination_token
            /\ query_stories' = query_stories
            /\ all_stories' = all_stories
            /\ upstream' = upstream
            /\ q' = q
            /\ more_stories'
            /\ d_pc' = "paging"]_vars
    /\ []((d_pc = "paging" /\ ~more_stories /\ max_stories = 0) =>
            query_stories = AllPages(upstream))

\* A pagination of two pages ended with all three stories after page calls
\* raised.
C11_Witness ==
    /\ d_pc = "paging"
    /\ ~more_stories
    /\ max_stories = 0
    /\ api_errors >= 2
    /\ Len(upstream) = 2
    /\ query_stories = <<1, 2, 3>>

\* C12: the pagination of a query comes to an end whatever the discovery
\* service does: the retries of a failing page call are finite.
C12_BoundedRetry == (d_pc = "paging") ~> (d_pc # "paging")

\* C13: while a query is paged, the Search Result Cache is switched off or
\* has no fresh entry for it; page calls happen during a pagination only; and
\* a query with a fresh entry takes exactly the cached stories and goes on to
\* the next query without a page call.
C13_CacheHitBypassesNetwork ==
    /\ [](d_pc = "paging" =>
            \/ ~use_cache
            \/ ~get_search_results(search_cache, q, cache_max_age_hours).hit)
    /\ [][(page_calls' # page_calls /\ page_calls' # 0) =>
            d_pc = "paging"]_vars
    /\ [][(/\ d_pc = "query"
           /\ q <= queries
           /\ use_cache
           /\ get_search_results(search_cache, q, cache_max_age_hours).hit) =>
            /\ d_pc' = "query"
            /\ q' = q + 1
            /\ all_stories' = all_stories \o search_cache[q].stories
            /\ page_calls' = page_calls
            /\ api_errors' = api_errors
            /\ search_cache' = search_cache]_vars

\* The first query of a discover took three stories from the cache without a
\* page call.
C13_Witness ==
    /\ d_pc = "query"
    /\ use_cache
    /\ q = 2
    /\ cache_reads = 1
    /\ page_calls = 0
    /\ api_errors = 0
    /\ all_stories = <<1, 2, 3>>

\* C14: an entry written to the Search Result Cache holds all stories of all
\* pages of its query.
C14_CacheHoldsFullPageSet ==
    [][(d_pc = "paging" /\ search_cache' # search_cache) =>
          search_cache'[q].stories = AllPages(upstream)]_vars

\* C15: with test URLs discover makes no page call and no access of the
\* Search Result Cache, raises no error whether or not a collection id is
\* set, and yields one item per test URL, in the order of the list.
C15_LiteralMode ==
    /\ [](test_urls # <<>> =>
            /\ d_pc = "done"
            /\ page_calls = 0
            /\ api_errors = 0
            /\ cache_reads = 0
            /\ Len(yielded) = Len(test_urls)
            /\ \A k \in 1..Len(test_urls) :
                  /\ yielded[k].url = test_urls[k]
                  /\ yielded[k].source = "test")
    /\ [][((test_urls' # test_urls \/ yielded' # yielded)
           /\ test_urls' # <<>>) =>
            search_cache' = search_cache]_vars

\* Two test URLs were yielded in their order with no collection id set.
C15_Witness ==
    /\ d_pc = "done"
    /\ ~collection_id
    /\ test_urls = <<UC, UA>>
    /\ Len(yielded) = 2
    /\ yielded[1].url = UC
    /\ yielded[2].url = UA
    /\ search_cache[1].present

\* The two configuration errors of run.
ConfigErrors == {"No manifest found", "collection_id must be provided"}

\* C16: run raises a configuration error only at its start; the step that
\* raises it calls neither write_document nor append_index, makes no page
\* call and no cache access, and leaves the corpus and the persisted manifest
\* as they were; the missing-manifest error is raised only when no manifest
\* is stored.
C16_ConfigErrorsEarly ==
    /\ [][(pc' = "raised" /\ result'.error \in ConfigErrors) =>
            /\ pc \in {"idle", "returned", "raised"}
            /\ UNCHANGED <<docs, index, manifest>>
            /\ writeCalls' = ZeroCalls
            /\ appendCalls' = ZeroCalls
            /\ UNCHANGED <<page_calls, api_errors, cache_reads,
                           search_cache>>]_vars
    /\ [](pc = "raised" =>
            /\ result.from = "raised"
            /\ (result.error = "No manifest found" => ~manifest.exists))

\* A run without collection id raised after an earlier run had stored a
\* document and the manifest, and left both as they were.
C16_Witness ==
    /\ pc = "raised"
    /\ result.error = "collection_id must be provided"
    /\ manifest.exists
    /\ Len(manifest.history) = 1
    /\ manifest.doc_count = 1
    /\ Cardinality(docs) = 1

\* C17: the manifest is saved only when a run returns its result, after the
\* frontier was processed; the save appends exactly one record to the
\* history, keeps the earlier records as they were and in place, and adds the
\* added count of the run to doc_count.
C17_RunHistory ==
    /\ [][manifest' # manifest =>
            /\ pc \in {"sequential", "concurrent"}
            /\ pc' = "returned"
            /\ pc = "sequential" => i > Len(frontier)
            /\ pc = "concurrent" => batch_num >= total_batches
            /\ Len(manifest'.history) = Len(manifest.history) + 1
            /\ SubSeq(manifest'.history, 1, Len(manifest.history))
                 = manifest.history
            /\ manifest'.history[Len(manifest'.history)].added
                 = result'.added
            /\ manifest'.doc_count = manifest.doc_count + result'.added
            /\ manifest'.doc_count >= manifest.doc_count]_vars
    /\ [][(pc' = "returned" /\ pc # "returned") =>
            Len(manifest'.history) = Len(manifest.history) + 1]_vars

\* A second run that fell back to the sequential path added its record after
\* the record of the first run.
C17_Witness ==
    /\ pc = "returned"
    /\ fellBack
    /\ Len(manifest.history) = 2
    /\ manifest.history[1].added = 1
    /\ manifest.history[2].added = 1
    /\ manifest.doc_count = 2

\* C18: the skipped_duplicate a run reports is the number of discovered
\* items minus the number of frontier entries, and is not negative.
C18_DuplicateCount ==
    (pc = "returned" /\ "skipped_duplicate" \in DOMAIN result) =>
        /\ result.skipped_duplicate = Len(discovered) - Len(frontier)
        /\ result.skipped_duplicate >= 0

\* C19: applying canonicalize to a canonical URL returns it unchanged, and
\* so the stable ID of a canonical URL is the stable ID of the URL it came
\* from.
C19_CanonicalizeIdempotent ==
    c_calls = 2 =>
        /\ c_out = c_prev
        /\ sid(c_prev) = sid(c_url)

\* Occurrences of the pair in the query string.
PairCount(query, pair) ==
    Cardinality({k \in 1..Len(query) : query[k] = pair})

\* The two query strings hold the same parameters, in any order, when the
\* tracking parameters are left aside.
SameParams(q1, q2) ==
    \A pair \in Range(q1) \cup Range(q2) :
        pair[1] \notin TRACKERS => PairCount(q1, pair) = PairCount(q2, pair)

\* The two URLs are the same but for the letter case of scheme and host, the
\* fragment, the order of the query parameters and the tracking parameters.
SameButNoise(u, w) ==
    /\ LowerStr(u.scheme) = LowerStr(w.scheme)
    /\ LowerStr(u.host) = LowerStr(w.host)
    /\ u.userinfo = w.userinfo
    /\ u.port = w.port
    /\ u.path = w.path
    /\ SameParams(u.query, w.query)

\* The URLs of CanonInputs that differ from u in the fragment, the query
\* string, and the scheme and host as written.
Variants(u) ==
    {[u EXCEPT !.scheme = s, !.host = h, !.query = qs, !.frag = f] :
        s \in {"https", "HTTPS", " https"}, h \in {"x.com", "X.com", "::1"},
        qs \in CanonQueries, f \in {"", "top", "top "}}

\* C20: two URLs that are the same but for letter case of scheme and host,
\* fragment, order of query parameters and tracking parameters, as written
\* or once the surrounding whitespace is removed, have the same canonical URL
\* and stable ID; the canonical query holds the decoded parameters of the URL
\* that are not tracking parameters, blank values included.
C20_CanonicalEquivalence ==
    c_calls = 1 =>
        /\ \A w \in Variants(c_url) :
              (SameButNoise(c_url, w)
               \/ SameButNoise(strip(c_url), strip(w))) =>
                  /\ canonicalize(w) = c_out
                  /\ sid(w) = sid(c_url)
        /\ SameParams(parse_qsl(c_out.query), parse_qsl(c_url.query))
        /\ \A k \in 1..Len(c_out.query) : c_out.query[k][1] \notin TRACKERS

\* The text between the first and the last piece of t that is not white space.
Trimmed(t) ==
    LET ink == {k \in 1..Len(t) : t[k] # " "}
    IN  IF ink = {} THEN <<>>
        ELSE SubSeq(t, CHOOSE a \in ink : \A b \in ink : a <= b,
                       CHOOSE a \in ink : \A b \in ink : a >= b)

NonBlank(ts) == SelectSeq(ts, LAMBDA t : \E k \in 1..Len(t) : t[k] # " ")

RECURSIVE Flatten(_, _)
Flatten(parts, sep) ==
    IF parts = <<>> THEN <<>>
    ELSE Head(parts)
         \o (IF Len(parts) > 1 THEN <<sep>> ELSE <<>>)
         \o Flatten(Tail(parts), sep)

Parenthesised(parts) == <<"(">> \o Flatten(parts, " OR ") \o <<")">>

\* Every term between double quotes, as it was given.
QuotedAsGiven(ts) == [k \in 1..Len(ts) |-> <<"\"">> \o ts[k] \o <<"\"">>]

\* A term stripped and put between double quotes with its own double quotes
\* escaped, unless it is quoted already or holds an operator or a parenthesis.
Quoted(t) ==
    LET w == Trimmed(t)
    IN  IF w = QuotedTerm \/ w = StructuredTerm THEN w
        ELSE <<"\"">>
             \o [k \in 1..Len(w) |-> IF w[k] = "\"" THEN "\\\"" ELSE w[k]]
             \o <<"\"">>

QuotedNonBlank(ts) == [k \in 1..Len(NonBlank(ts)) |-> Quoted(NonBlank(ts)[k])]

GroupsOf(m) ==
    LET kept == SelectSeq(m, LAMBDA ws : NonBlank(ws) # <<>>)
    IN  [k \in 1..Len(kept) |-> Parenthesised(QuotedNonBlank(kept[k]))]

\* discover has prepared its queries.
Prepared == d_pc # "idle"

\* C21 (as stated): first match wins: a non-empty list extra['queries'] gives
\* its raw strings as the queries; otherwise a non-empty mapping
\* extra['keywords'] gives one query that ORs the quoted terms of each
\* language group and ORs the groups; otherwise a non-empty params.keywords
\* gives one OR-group of its quoted terms, ["vaccine", "mandate"] giving
\* ("vaccine" OR "mandate"); otherwise there is no query and discover yields
\* nothing.
C21_QueryPrecedence ==
    Prepared =>
        IF extra_queries # <<>> THEN query_strings = extra_queries
        ELSE IF extra_keywords # <<>>
        THEN query_strings =
                 <<Parenthesised(
                     [k \in 1..Len(extra_keywords) |->
                         Parenthesised(QuotedAsGiven(extra_keywords[k]))])>>
        ELSE IF params_keywords # <<>>
        THEN query_strings = <<Parenthesised(QuotedAsGiven(params_keywords))>>
        ELSE query_strings = <<>> /\ (d_pc = "done" => yielded = <<>>)

\* C21 (amended): first match wins: a non-empty list extra['queries'] gives
\* its strings, stripped of the white space around them and the blank ones
\* left out; otherwise a non-empty mapping extra['keywords'] gives one query
\* that ORs the terms of each language group and ORs the groups, blank terms
\* and groups without a term left out, every term stripped and quoted unless
\* it is quoted already or holds an operator or a parenthesis (and the empty
\* query when no group has a term); otherwise a non-empty params.keywords
\* gives one OR-group of such terms, ["vaccine", "mandate"] giving
\* ("vaccine" OR "mandate"), and no query when all its terms are blank;
\* otherwise there is no query. Without a query discover yields nothing.
C21_QueryPrecedenceAmended ==
    Prepared =>
        /\ IF extra_queries # <<>>
           THEN query_strings =
                    [k \in 1..Len(NonBlank(extra_queries)) |->
                        Trimmed(NonBlank(extra_queries)[k])]
           ELSE IF extra_keywords # <<>>
           THEN query_strings =
                    <<IF GroupsOf(extra_keywords) = <<>> THEN <<>>
                      ELSE Parenthesised(GroupsOf(extra_keywords))>>
           ELSE IF params_keywords # <<>>
           THEN query_strings =
                    IF NonBlank(params_keywords) = <<>> THEN <<>>
                    ELSE <<Parenthesised(QuotedNonBlank(params_keywords))>>
           ELSE query_strings = <<>>
        /\ (extra_queries = <<>> /\ extra_keywords = <<>>
            /\ params_keywords = <<Vaccine, Mandate>>)
           => query_strings =
                  <<<<"(", "\"", "vaccine", "\"", " OR ",
                      "\"", "mandate", "\"", ")">>>>
        /\ (query_strings = <<>> /\ d_pc = "done") => yielded = <<>>

\* The raw queries win over a keywords mapping and a keyword list that are
\* both there, and a discover without a query has returned.
C21_Witness ==
    /\ Prepared
    /\ extra_queries = <<PaddedTerm, Vaccine>>
    /\ extra_keywords = <<<<Vaccine, Mandate>>>>
    /\ params_keywords = <<Mandate>>
    /\ query_strings = <<Vaccine, Vaccine>>

\* The items are in the order the claim asks for: no later item is more
\* recent than an earlier one, and none with a date follows one without.
Ordered(items) ==
    \A j, k \in 1..Len(items) :
        j < k =>
            /\ has_publish_date(items[j].story_id)
               \/ ~has_publish_date(items[k].story_id)
            /\ (has_publish_date(items[j].story_id)
                /\ has_publish_date(items[k].story_id))
               => items[j].story_id >= items[k].story_id

\* C22: when discover is through with its queries it hands on one item per
\* story it collected, in non-increasing order of publish date, the items
\* without a publish date after all those with one.
C22_ResultOrdering ==
    [][(d_pc = "query" /\ q > queries /\ d_pc' # d_pc) =>
          /\ d_pc' = "done"
          /\ Len(yielded') = Len(all_stories)
          /\ Ordered(yielded')]_vars

\* What the claim asks of one field: the extractor's value when it supplied
\* one, the discovery item's value otherwise.
ExtractorWins(f, none) ==
    meta[f] = IF parsed[f] # none THEN parsed[f]
              ELSE IF discovered_item.found THEN discovered_item[f]
              ELSE none

\* C23: in the meta of a written document each of title, language, authors
\* and published_at is the extractor's value when the extractor supplied one
\* and the discovery item's value only otherwise.
C23_MetadataMerge ==
    pc = "merged" =>
        /\ ExtractorWins("title", NoValue)
        /\ ExtractorWins("language", NoValue)
        /\ ExtractorWins("authors", <<>>)
        /\ ExtractorWins("published_at", NoValue)

\* The batch jobs started so far, in order.
Dispatches == SelectSeq(batch_log, LAMBDA e : e.ev = "dispatch")

RECURSIVE ConcatUrls(_)
ConcatUrls(ds) ==
    IF ds = <<>> THEN <<>> ELSE Head(ds).urls \o ConcatUrls(Tail(ds))

EventsOf(kind) == {k \in 1..Len(batch_log) : batch_log[k].ev = kind}

\* All batches of the frontier have been worked off.
BatchesDone == batch_num = total_batches

\* C24: while _process_concurrent works off its batches, the batches started
\* so far are consecutive pieces of the frontier URL list, each of batch_size
\* URLs but for a shorter, non-empty last one, and once all are done their
\* concatenation is the frontier URL list; every batch is started first or
\* right after the pause that follows the return of the batch before it, and
\* its job returns before anything else happens; there is a pause after every
\* batch but the last and nowhere else; an empty frontier starts no batch.
C24_BatchOrdering ==
    pc = "concurrent" =>
        /\ Len(Dispatches) = batch_num
        /\ ConcatUrls(Dispatches)
             = SubSeq(urls, 1, Min(batch_num * batch_size, Len(urls)))
        /\ BatchesDone => ConcatUrls(Dispatches) = urls
        /\ \A k \in 1..Len(Dispatches) :
              /\ Len(Dispatches[k].urls) \in 1..batch_size
              /\ Len(Dispatches[k].urls) < batch_size
                 => (BatchesDone /\ k = Len(Dispatches))
        /\ \A k \in EventsOf("dispatch") :
              /\ k = 1 \/ (k > 2 /\ batch_log[k - 1].ev = "pause"
                                 /\ batch_log[k - 2].ev = "returned")
              /\ k < Len(batch_log) /\ batch_log[k + 1].ev = "returned"
        /\ \A k \in EventsOf("pause") :
              /\ k > 1 /\ batch_log[k - 1].ev = "returned"
              /\ BatchesDone => k < Len(batch_log)
        /\ Cardinality(EventsOf("pause"))
             = IF BatchesDone THEN Max(batch_num - 1, 0) ELSE batch_num
        /\ Len(frontier) = 0 => batch_log = <<>>

\* Four URLs went out as a batch of three, a pause and a batch of one.
C24_Witness ==
    /\ pc = "concurrent"
    /\ Len(frontier) = 4
    /\ BatchesDone
    /\ Len(batch_log) = 5
    /\ Len(Dispatches[1].urls) = 3
    /\ Len(Dispatches[2].urls) = 1
    /\ batch_log[3].ev = "pause"

\* C25: every batch job is started with the concurrent_requests the caller
\* configured (16 when none is configured), for every configured value of at
\* least 1, and with the download_delay the caller configured.
C25_ConfigurableConcurrency ==
    \A k \in 1..Len(Dispatches) :
        /\ conf_concurrent_requests = NotSet
           => Dispatches[k].concurrent_requests = 16
        /\ conf_concurrent_requests >= 1
           => Dispatches[k].concurrent_requests = conf_concurrent_requests
        /\ conf_download_delay # NotSet
           => Dispatches[k].download_delay = conf_download_delay

\* C26: with max_stories set, the stories discover has aggregated, those of
\* the query it is paging included, are never more than max_stories, nor are
\* the items it yields, and no page call is made once the cap is reached.
C26_ItemCap ==
    /\ [](max_stories # 0 =>
            /\ Len(all_stories) + Len(query_stories) <= max_stories
            /\ Len(yielded) <= max_stories)
    /\ [][page_calls' = page_calls + 1 =>
            ~cap_reached(Len(all_stories) + Len(query_stories))]_vars

\* The step is a page call that returned.
PageReturned == d_pc = "paging" /\ page_calls' = page_calls + 1

\* max_stories is set and the stories aggregated after the step are as many.
CapHit == max_stories # 0 /\ Len(all_stories) + Len(query_stories') >= max_stories

\* C27: on a cache miss the pages of the query are asked for in their order,
\* each once (without a cap the stories collected after n page calls of the
\* first query are those of its first n pages); a page call that returns
\* ends the pagination exactly when its page is empty, it returns no token
\* or the item cap is reached, and the pagination ends in no other way than
\* by such a page call or by the cap found reached before a call; the
\* rate limiter is waited for once when a paged query is done and at no
\* other step, a cache hit included.
C27_PaginationEnd ==
    /\ []((d_pc = "paging" /\ q = 1 /\ max_stories = 0) =>
            /\ page_calls <= Max(Len(upstream), 1)
            /\ query_stories
                 = AllPages(SubSeq(upstream, 1, Min(page_calls, Len(upstream)))))
    /\ [][PageReturned =>
            (~more_stories' <=>
                \/ query_stories' = query_stories
                \/ pagination_token' = 0
                \/ CapHit)]_vars
    /\ [][(d_pc = "paging" /\ more_stories /\ ~more_stories') =>
            PageReturned \/ CapHit]_vars
    /\ [][(d_pc = "paging" /\ d_pc' # "paging") => ~more_stories]_vars
    /\ [][(d_pc = "paging" /\ d_pc' = "query") =>
            courtesy_waits' = courtesy_waits + 1]_vars
    /\ [][(courtesy_waits' # courtesy_waits /\ courtesy_waits' # 0) =>
            (d_pc = "paging" /\ d_pc' = "query")]_vars

\* A discover took its first query from the cache and paged its second one
\* over three page calls, the last of which came back empty, and waited for
\* the rate limiter once.
C27_Witness ==
    /\ d_pc = "query"
    /\ q = 3
    /\ cache_reads = 2
    /\ page_calls = 3
    /\ api_errors = 0
    /\ courtesy_waits = 1

\* The four counters of the loop of _process_sequential.
Counters == <<added, skipped_quality, skipped_text_extraction, Len(failed_urls)>>

CountersNext ==
    <<added', skipped_quality', skipped_text_extraction', Len(failed_urls')>>

\* C28: an iteration of the loop of _process_sequential adds one to exactly
\* one of added, skipped_quality, skipped_text_extraction and failed and
\* leaves the three others; the result of the sequential path has failed =
\* the length of failed_details and discovered = added + skipped_quality +
\* skipped_text_extraction + skipped_duplicate + failed; a run that
\* discovered nothing returns discovered 0, added 0, failed 0.
C28_AccountingIdentity ==
    /\ [][IsSeqStep =>
            \E c \in 1..4 :
                \A k \in 1..4 :
                    CountersNext[k] = Counters[k] + (IF k = c THEN 1 ELSE 0)]_vars
    /\ []((pc = "returned" /\ result.from = "sequential") =>
            /\ result.failed = Len(result.failed_details)
            /\ result.discovered
                 = result.added + result.skipped_quality
                     + result.skipped_text_extraction
                     + result.skipped_duplicate + result.failed)
    /\ []((pc = "returned" /\ discovered = <<>>) =>
            /\ result.discovered = 0
            /\ result.added = 0
            /\ result.failed = 0)

\* A sequential run over two discovered items of one url added one document
\* and failed once.
C28_Witness ==
    /\ pc = "returned"
    /\ ~use_concurrent
    /\ discovered = <<UB, UB>>
    /\ result.from = "sequential"
    /\ result.discovered = 1
    /\ result.added = 1
    /\ result.failed = 1
    /\ result.skipped_duplicate = -1

\* C29: whenever a run has returned, the doc_count of the manifest is the
\* number of documents stored in the corpus.
C29_CumulativeDocCount ==
    pc = "returned" => manifest.doc_count = Cardinality(docs)

\* C30: whenever a run has returned, the index holds exactly one record for
\* every document in the corpus and none for any other doc_id.
C30_CorpusIndexConsistency ==
    pc = "returned" =>
        \A s \in Sids : IndexRecords(s) = IF s \in docs THEN 1 ELSE 0

\* The URLs that differ from u in the user-info, the port or the path.
OtherResources(u) ==
    {[u EXCEPT !.userinfo = ui, !.port = po, !.path = pa] :
        ui \in {"", "user"}, po \in {"", "8080"}, pa \in {"", "/a", "/a "}}

\* C31: two URLs that still differ in user-info, port or path once the
\* surrounding whitespace is removed have different canonical URLs and
\* different stable IDs.
C31_StableIdSeparates ==
    c_calls = 1 =>
        \A w \in OtherResources(c_url) :
            (\/ strip(w).userinfo # strip(c_url).userinfo
             \/ strip(w).port # strip(c_url).port
             \/ strip(w).path # strip(c_url).path) =>
                /\ canonicalize(w) # c_out
                /\ sid(w) # sid(c_url)

\* The host of the url contains an entry of the domain blacklist, or the url
\* contains a pattern of the url blacklist, letter case aside.
Blacklisted(u) ==
    \/ \E k \in 1..Len(domain_blacklist) :
          contains(lower_pieces(domain_blacklist[k]), lower_pieces(<<u.host>>))
    \/ \E k \in 1..Len(url_blacklist) :
          contains(lower_pieces(url_blacklist[k]), lower_pieces(url_text(u)))

\* The items discover yielded that match no blacklist entry, in order.
Kept == SelectSeq(raw_items, LAMBDA u : ~Blacklisted(u))

\* C32: the items run goes on with are the items discover yielded that match
\* no entry of the two blacklists, in order; no blacklisted url is in the
\* frontier or among the failed urls, no document is written for one, and
\* the discovered count run returns is that of the kept urls.
C32_BlacklistFilters ==
    pc # "idle" =>
        /\ discovered = Kept
        /\ \A k \in 1..Len(frontier) : ~Blacklisted(frontier[k][1])
        /\ \A k \in 1..Len(failed_urls) : ~Blacklisted(failed_urls[k].url)
        /\ docs \subseteq {sids[u] : u \in Range(Kept)}
        /\ (pc = "returned" /\ "discovered" \in DOMAIN result) =>
              result.discovered = Cardinality(Range(Kept))

\* C33: an infer that did not take its answer from the cache makes at most
\* max_retries API calls and none after one that returned; it has slept
\* retry_delay * 2^attempt after every failed attempt but the last one, and
\* it returns the content of the call that returned or, when none did, the
\* error object.
C33_BoundedRetry ==
    /\ Len(call_log) <= max_retries
    /\ \A k \in 1..(Len(call_log) - 1) : ~call_log[k]
    /\ l_pc \in {"idle", "calling", "returned"}
    /\ (l_pc = "returned" /\ ~cache_hit) =>
          /\ sleeps = [k \in 1..(Len(call_log) - 1) |->
                          retry_delay * 2 ^ (k - 1)]
          /\ response = IF \E k \in 1..Len(call_log) : call_log[k]
                        THEN Content
                        ELSE error_response

\* C34: an infer that finds an entry for its messages in the cache, with
\* caching enabled, returns the entry and makes no API call; the cache never
\* holds anything but the content of an API call that returned.
C34_CacheHoldsResponses ==
    /\ [][(l_pc # "calling" /\ infers' # infers /\ ~ignore_cache
            /\ cache_get(llm_cache, messages').present) =>
            /\ l_pc' = "returned"
            /\ response' = cache_get(llm_cache, messages').response
            /\ call_log' = <<>>]_vars
    /\ [](\A m \in Messages :
            cache_get(llm_cache, m).present =>
                cache_get(llm_cache, m).response = Content)

\* The number of words of a chunk.
RECURSIVE ChunkWords(_)
ChunkWords(c) ==
    IF c = <<>> THEN 0 ELSE Head(c).words + ChunkWords(Tail(c))

\* C35: a chunk chunk returns has at most max_words words, or at most a
\* tenth of max_words more when a sentence that starts with a discourse
\* connector or holds a quote attribution was attached to it.
C35_ChunkSizeBound ==
    t_pc = "done" =>
        \A n \in 1..Len(chunks) :
            \/ ChunkWords(chunks[n]) <= max_words
            \/ /\ 10 * ChunkWords(chunks[n]) <= 11 * max_words
               /\ \E k \in 2..Len(chunks[n]) : chunks[n][k].kind # "plain"

\* The words of a chunk: word j of sentence k of paragraph p, and the last
\* word with "..." after it.
RECURSIVE WordsOf(_)
WordsOf(c) ==
    IF c = <<>> THEN <<>>
    ELSE [j \in 1..Head(c).words |->
             <<Head(c).para, Head(c).sent, j,
               IF j = Head(c).words /\ Head(c).dots THEN "..." ELSE "">>]
         \o WordsOf(Tail(c))

RECURSIVE WordsOfAll(_)
WordsOfAll(cs) ==
    IF cs = <<>> THEN <<>> ELSE WordsOf(Head(cs)) \o WordsOfAll(Tail(cs))

\* The words of the text chunk was called with.
RECURSIVE TextWords(_)
TextWords(p) ==
    IF p > Len(paragraphs) THEN <<>>
    ELSE WordsOf([k \in 1..Len(paragraphs[p]) |->
                     [para |-> p, sent |-> k,
                      words |-> paragraphs[p][k].words, dots |-> FALSE]])
         \o TextWords(p + 1)

\* C36: the words of the chunks chunk returns, in order, are the words of
\* the text; no chunk is empty; no chunk goes on with a sentence of another
\* paragraph after it has reached half of max_words; a text without a word
\* gives no chunk.
C36_ChunkingKeepsText ==
    t_pc = "done" =>
        /\ WordsOfAll(chunks) = TextWords(1)
        /\ \A n \in 1..Len(chunks) : chunks[n] # <<>>
        /\ \A n \in 1..Len(chunks) :
              \A k \in 2..Len(chunks[n]) :
                  chunks[n][k].para # chunks[n][k - 1].para =>
                      2 * ChunkWords(SubSeq(chunks[n], 1, k - 1)) < max_words
        /\ paragraphs = <<>> => chunks = <<>>

====
